---- MODULE Spec2Model ----
(***************************************************************************)
(* A model of the nanobot agent core: the spend budget (agent/budget.py),  *)
(* the check / call / record protocol by which several loops share one     *)
(* budget, and the agent loop's turn state machine (agent/loop.py).        *)
(*                                                                         *)
(* Text is a sequence of tokens (TLA+ strings): text that the code         *)
(* inspects character by character (inbound content, chat ids) is one      *)
(* token per character, a literal of the code is one token.  Dollars are   *)
(* whole tenths of a dollar (0.6 is 6, 1.00 is 10).  Python's None is the  *)
(* empty sequence and a present value v is <<v>>.                          *)
(***************************************************************************)
EXTENDS Integers, Sequences, FiniteSets, TLC

VARIABLES
    budget,             \* the SpendBudget object, <<>> when none exists
    passed,             \* the arguments of every add_cost call made so far, in order
    shared,             \* per loop sharing the budget: its position in the cycle
    max_spend_dollars,  \* AgentLoop.max_spend_dollars: the configured ceiling or None
    honcho_enabled,     \* AgentLoop.honcho_enabled
    inbound,            \* the bus's inbound queue
    arrived,            \* inbound messages published so far
    pc,                 \* where the run loop is: between messages or inside a turn
    msg,                \* the inbound message being (or last) processed
    prev,               \* the inbound message processed before msg
    sessions,           \* the session manager's sessions: key -> stored messages
    turn,               \* the local variables of the turn being processed
    outbound,           \* outbound messages published for msg
    error,              \* the exception that ended the turn, None when none did
    sessions_class,     \* the class of AgentLoop.sessions, "None" before it is set
    tools,              \* the names registered in AgentLoop.tools
    init_raised,        \* whether HonchoSessionManager's initialisation raised
    honcho_manager,     \* a HonchoSessionManager: its _cache and _sessions_cache
    backend,            \* the Honcho service: session id -> messages it holds
    call,               \* the last call made on the HonchoSessionManager
    running,            \* AgentLoop._running
    subagents,          \* the subagents spawned so far, each with its origin and state
    spawn_origin,       \* the spawn tool's _origin_channel and _origin_chat_id
    honcho_context,     \* HonchoTool._current_user_id, None until set_context is called
    direct,             \* the turn started through process_direct, if any
    chunked             \* the last chunk_message call: its arguments and its chunks

ctorVars == <<sessions_class, tools, init_raised>>
remoteVars == <<honcho_manager, backend, call>>
taskVars == <<running, subagents, spawn_origin>>
sideVars == <<honcho_context, direct, chunked>>
loopVars == <<max_spend_dollars, honcho_enabled, inbound, arrived, pc, msg, prev,
              sessions, turn, outbound, error, ctorVars, remoteVars, taskVars, sideVars>>
vars == <<budget, passed, shared, max_spend_dollars, honcho_enabled, ctorVars,
                   remoteVars, inbound, arrived,
          pc, msg, prev, sessions, turn, outbound, error, sessions_class, tools,
          init_raised, honcho_manager, backend, call, taskVars, sideVars>>

---------------------------------------------------------------------------
(* Bounds of the model.                                                    *)

\* add_cost calls made on one budget object
MaxLedger == 3
\* inbound messages the transport publishes
MaxInbound == 2
\* max_iterations of a loop (the code's default is 20)
MaxIterations == 2

None == <<>>
Some(v) == <<v>>

Max(a, b) == IF a >= b THEN a ELSE b

\* a turn's local variables before the turn starts
EmptyTurn ==
    [session_key |-> <<>>, origin_channel |-> <<>>, origin_chat_id |-> <<>>,
     messages |-> <<>>, iteration |-> 0, final_content |-> None,
     budget_exhausted |-> FALSE, tool_calls |-> <<>>, next_call |-> 0,
     model_calls |-> 0, tool_dispatches |-> 0, all_tool_calls |-> TRUE,
     saves |-> 0, prefetch_attempted |-> FALSE, user_context |-> None]

\* HonchoSessionManager.__init__: empty caches; created counts the
\* HonchoSession objects made so far, added the add_message calls on them
EmptyManager ==
    [cache |-> <<>>, sessions_cache |-> {}, created |-> 0, added |-> 0]

\* no HonchoSessionManager is in use
NoRemote ==
    /\ honcho_manager = EmptyManager
    /\ backend = <<>>
    /\ call = None

\* no turn was started through process_direct
NoDirect ==
    [pc |-> "none", channel |-> <<>>, chat_id |-> <<>>, content |-> <<>>,
     response |-> None]

\* the query tool has no context, process_direct and chunk_message were not
\* called
NoSide ==
    /\ honcho_context = None
    /\ direct = NoDirect
    /\ chunked = None

\* SpawnTool.set_context
set_context(channel, chat_id) == [channel |-> channel, chat_id |-> chat_id]

\* the spawn tool's origin as SpawnTool.__init__ sets it
DefaultOrigin == [channel |-> <<"c", "l", "i">>, chat_id |-> <<"direct">>]

\* run() has set the run flag; nothing has been spawned
Started ==
    /\ running = TRUE
    /\ subagents = <<>>
    /\ spawn_origin = DefaultOrigin
    /\ NoSide

\* the loop's variables where no loop runs (the budget is used on its own)
NoLoop ==
    /\ running = FALSE
    /\ subagents = <<>>
    /\ spawn_origin = DefaultOrigin
    /\ NoSide
    /\ sessions_class = "None"
    /\ tools = {}
    /\ init_raised = FALSE
    /\ NoRemote
    /\ max_spend_dollars = None
    /\ honcho_enabled = FALSE
    /\ inbound = <<>>
    /\ arrived = 0
    /\ pc = "idle"
    /\ msg = None
    /\ prev = None
    /\ sessions = <<>>
    /\ turn = EmptyTurn
    /\ outbound = <<>>
    /\ error = None

---------------------------------------------------------------------------
(* SpendBudget (agent/budget.py).                                          *)

\* SpendBudget(max_spend_dollars=m): the dataclass defaults
NewBudget(m) ==
    [max_spend_dollars |-> m, spent_dollars |-> 0, input_tokens |-> 0,
     output_tokens |-> 0, calls |-> <<>>]

remaining_dollars(b) == Max(0, b.max_spend_dollars - b.spent_dollars)

is_exhausted(b) == b.spent_dollars >= b.max_spend_dollars

\* the mutant of add_cost: the spend is overwritten instead of accumulated
add_cost_overwrite(b, cost, input_tokens, output_tokens, source) ==
    [b EXCEPT !.input_tokens = @ + input_tokens,
              !.output_tokens = @ + output_tokens,
              !.spent_dollars = cost,
              !.calls = Append(@, [source |-> source, input_tokens |-> input_tokens,
                                   output_tokens |-> output_tokens, cost |-> cost])]

\* the mutant of add_cost: the two token counters are accumulated crosswise
add_cost_swapped(b, cost, input_tokens, output_tokens, source) ==
    [b EXCEPT !.input_tokens = @ + output_tokens,
              !.output_tokens = @ + input_tokens,
              !.spent_dollars = @ + cost,
              !.calls = Append(@, [source |-> source, input_tokens |-> input_tokens,
                                   output_tokens |-> output_tokens, cost |-> cost])]

add_cost(b, cost, input_tokens, output_tokens, source) ==
    [b EXCEPT !.input_tokens = @ + input_tokens,
              !.output_tokens = @ + output_tokens,
              !.spent_dollars = @ + cost,
              !.calls = Append(@, [source |-> source, input_tokens |-> input_tokens,
                                   output_tokens |-> output_tokens, cost |-> cost])]

\* get_summary: "$<spent> of $<max> (<in> in, <out> out)"
get_summary(b) ==
    <<"$", ToString(b.spent_dollars), " of $", ToString(b.max_spend_dollars),
      " (", ToString(b.input_tokens), " in, ", ToString(b.output_tokens), " out)">>

---------------------------------------------------------------------------
(* The budget used directly: any caller, any argument the signature takes. *)

\* ceilings a budget is constructed with
Ceilings == {2, 3}
\* the cost argument: add_cost validates nothing, a negative cost is accepted
Costs == {-1, 1, 2}
\* (input_tokens, output_tokens) of a call
TokenPairs == {<<0, 0>>, <<3, 1>>}
\* source labels: the parent loop and a subagent
Sources == {<<"agent">>, <<"subagent:", "t1">>}

RECURSIVE SumCost(_)
SumCost(s) == IF s = <<>> THEN 0 ELSE s[1].cost + SumCost(Tail(s))

RECURSIVE SumIn(_)
SumIn(s) == IF s = <<>> THEN 0 ELSE s[1].input_tokens + SumIn(Tail(s))

RECURSIVE SumOut(_)
SumOut(s) == IF s = <<>> THEN 0 ELSE s[1].output_tokens + SumOut(Tail(s))

InitBudget ==
    /\ \E m \in Ceilings : budget = Some(NewBudget(m))
    /\ passed = <<>>
    /\ shared = <<>>
    /\ NoLoop

\* one add_cost call: the method body has no suspension point, so under the
\* cooperative scheduler it runs to its end before any other caller runs
AddCost(source, cost, tok) ==
    /\ Len(passed) < MaxLedger
    /\ budget' = Some(add_cost(budget[1], cost, tok[1], tok[2], source))
    /\ passed' = Append(passed, [source |-> source, input_tokens |-> tok[1],
                                  output_tokens |-> tok[2], cost |-> cost])
    /\ UNCHANGED <<shared, loopVars>>

NextBudget ==
    \E source \in Sources, cost \in Costs, tok \in TokenPairs :
        AddCost(source, cost, tok)

SpecBudget == InitBudget /\ [][NextBudget]_vars

---------------------------------------------------------------------------
(* Claims about the budget object, checked under SpecBudget.               *)

TheBudget == budget[1]

\* C1 as stated: after add_cost calls whose costs sum to s <= m, is_exhausted
\* is false and remaining_dollars = m - s.
C1_AsStated ==
    LET s == SumCost(passed)
        m == TheBudget.max_spend_dollars
    IN  s <= m => /\ ~is_exhausted(TheBudget)
                  /\ remaining_dollars(TheBudget) = m - s

\* C1 amended: after add_cost calls whose costs sum to s, remaining_dollars is
\* m - s whenever s <= m, and is_exhausted is false whenever s < m (at s = m
\* the budget is exhausted).
C1_RemainingAndExhaustion ==
    LET s == SumCost(passed)
        m == TheBudget.max_spend_dollars
    IN  /\ s <= m => remaining_dollars(TheBudget) = m - s
        /\ s < m => ~is_exhausted(TheBudget)
        /\ s = m => is_exhausted(TheBudget)

C1_Witness ==
    /\ Len(passed) >= 2
    /\ SumCost(passed) > 0
    /\ SumCost(passed) < TheBudget.max_spend_dollars

\* C2: every add_cost call leaves spent_dollars at least what it was, and a
\* budget that is exhausted stays exhausted.
C2_SpendNeverDecreases ==
    [][/\ budget'[1].spent_dollars >= budget[1].spent_dollars
       /\ is_exhausted(budget[1]) => is_exhausted(budget'[1])]_vars

\* C3: no update is lost: the spend and the token counters are the sums of
\* what the calls passed, and the ledger holds one entry per call, with that
\* call's source, cost and token counts.
C3_NoLostUpdate ==
    /\ TheBudget.spent_dollars = SumCost(passed)
    /\ TheBudget.input_tokens = SumIn(passed)
    /\ TheBudget.output_tokens = SumOut(passed)
    /\ TheBudget.calls = passed

C3_Witness ==
    /\ Len(passed) = 3
    /\ \E i, j \in 1..Len(passed) :
          /\ passed[i].source = <<"agent">>
          /\ passed[j].source # <<"agent">>
          /\ passed[j].input_tokens > 0

---------------------------------------------------------------------------
(* Several loops sharing one budget: the parent turn and the subagents it  *)
(* spawned each run the cycle of _process_message: check is_exhausted,     *)
(* await the model call, record the call's cost.  The await is where the   *)
(* other loops run.                                                        *)

\* the loops and the source label each records under
SharedLoops == {"agent", "sub_a", "sub_b"}
SharedSource(l) ==
    IF l = "agent" THEN <<"agent">>
    ELSE IF l = "sub_a" THEN <<"subagent:", "a">> ELSE <<"subagent:", "b">>
\* the ceiling of the shared budget (1.00) and what one model call costs
SharedCeilings == {10}
CallCosts == {6, 7}
MaxCallCost == CHOOSE c \in CallCosts : \A d \in CallCosts : d <= c

InitShared ==
    /\ \E m \in SharedCeilings : budget = Some(NewBudget(m))
    /\ passed = <<>>
    /\ shared = [l \in SharedLoops |-> [pc |-> "check", iteration |-> 0]]
    /\ NoLoop

\* while iteration < max_iterations: iteration += 1; exhausted -> break,
\* otherwise the model call is started
SharedCheck(l) ==
    /\ shared[l].pc = "check"
    /\ shared[l].iteration < MaxIterations
    /\ shared' = [shared EXCEPT ![l] =
                    [pc |-> IF is_exhausted(budget[1]) THEN "exhausted" ELSE "inflight",
                     iteration |-> @.iteration + 1]]
    /\ UNCHANGED <<budget, passed, loopVars>>

\* the loop condition fails: the iteration cap ends the loop
SharedCap(l) ==
    /\ shared[l].pc = "check"
    /\ shared[l].iteration >= MaxIterations
    /\ shared' = [shared EXCEPT ![l].pc = "done"]
    /\ UNCHANGED <<budget, passed, loopVars>>

\* the model call returns: its cost is recorded; with tool calls the loop
\* goes round again, without them it ends
SharedReturn(l, cost, tok, has_tool_calls) ==
    /\ shared[l].pc = "inflight"
    /\ budget' = Some(add_cost(budget[1], cost, tok[1], tok[2], SharedSource(l)))
    /\ passed' = Append(passed, [source |-> SharedSource(l), input_tokens |-> tok[1],
                                  output_tokens |-> tok[2], cost |-> cost])
    /\ shared' = [shared EXCEPT ![l].pc = IF has_tool_calls THEN "check" ELSE "done"]
    /\ UNCHANGED loopVars

NextShared ==
    \/ \E l \in SharedLoops : SharedCheck(l)
    \/ \E l \in SharedLoops : SharedCap(l)
    \/ \E l \in SharedLoops, cost \in CallCosts, has_tool_calls \in BOOLEAN :
          SharedReturn(l, cost, <<3, 1>>, has_tool_calls)

SpecShared == InitShared /\ [][NextShared]_vars

---------------------------------------------------------------------------
(* Text helpers: Python's str operations on token sequences.               *)

Whitespace == {" ", "\n", "\t"}

\* str.lower() on one character
LowerChar(c) ==
    CASE c = "A" -> "a" [] c = "B" -> "b" [] c = "C" -> "c" [] c = "D" -> "d"
      [] c = "E" -> "e" [] c = "F" -> "f" [] c = "G" -> "g" [] c = "H" -> "h"
      [] c = "I" -> "i" [] c = "J" -> "j" [] c = "K" -> "k" [] c = "L" -> "l"
      [] c = "M" -> "m" [] c = "N" -> "n" [] c = "O" -> "o" [] c = "P" -> "p"
      [] c = "Q" -> "q" [] c = "R" -> "r" [] c = "S" -> "s" [] c = "T" -> "t"
      [] c = "U" -> "u" [] c = "V" -> "v" [] c = "W" -> "w" [] c = "X" -> "x"
      [] c = "Y" -> "y" [] c = "Z" -> "z" [] OTHER -> c

Lower(s) == [i \in 1..Len(s) |-> LowerChar(s[i])]

RECURSIVE LStrip(_)
LStrip(s) == IF s # <<>> /\ s[1] \in Whitespace THEN LStrip(Tail(s)) ELSE s

RECURSIVE RStrip(_)
RStrip(s) ==
    IF s # <<>> /\ s[Len(s)] \in Whitespace THEN RStrip(SubSeq(s, 1, Len(s) - 1)) ELSE s

\* str.strip()
Strip(s) == RStrip(LStrip(s))

\* "c" in s
Contains(s, c) == \E i \in 1..Len(s) : s[i] = c

\* s.find(c) + 1: the first position of c in s, 0 when there is none
FirstIndex(s, c) ==
    IF Contains(s, c) THEN CHOOSE i \in 1..Len(s) : s[i] = c /\ \A j \in 1..(i - 1) : s[j] # c
    ELSE 0

\* the last position of c in s, 0 when there is none
LastIndex(s, c) ==
    IF Contains(s, c) THEN CHOOSE i \in 1..Len(s) : s[i] = c /\ \A j \in (i + 1)..Len(s) : s[j] # c
    ELSE 0

\* the mutant of SplitFirst: the split is taken at the last separator (rsplit)
SplitLast(s, c) ==
    LET i == LastIndex(s, c)
    IN  IF i = 0 THEN <<s>> ELSE <<SubSeq(s, 1, i - 1), SubSeq(s, i + 1, Len(s))>>

\* s.split(c, 1)
SplitFirst(s, c) ==
    LET i == FirstIndex(s, c)
    IN  IF i = 0 THEN <<s>> ELSE <<SubSeq(s, 1, i - 1), SubSeq(s, i + 1, Len(s))>>

---------------------------------------------------------------------------
(* Messages, sessions, context and tools as the loop uses them.            *)

SYSTEM == <<"s", "y", "s", "t", "e", "m">>
CLI == <<"c", "l", "i">>
TG == <<"t", "g">>

CmdClear == <<"/", "c", "l", "e", "a", "r">>
CmdReset == <<"/", "r", "e", "s", "e", "t">>
CmdNew == <<"/", "n", "e", "w">>
CmdStatus == <<"/", "s", "t", "a", "t", "u", "s">>
CmdHelp == <<"/", "h", "e", "l", "p">>

InboundMessage(channel, sender_id, chat_id, content) ==
    [channel |-> channel, sender_id |-> sender_id, chat_id |-> chat_id,
     content |-> content]

OutboundMessage(channel, chat_id, content) ==
    [channel |-> channel, chat_id |-> chat_id, content |-> content]

\* InboundMessage.session_key
session_key(m) == m.channel \o <<":">> \o m.chat_id

\* what the transport and the subagent manager may publish inbound
UserContents ==
    {<<"h", "i">>, CmdClear, <<" ", "/", "R", "e", "s", "e", "t">>,
     <<"/", "N", "E", "W", "\n">>, CmdStatus, CmdHelp}
InboundMessages ==
    {InboundMessage(TG, <<"user">>, <<"4", ":", "2">>, c) : c \in UserContents}
    \cup {InboundMessage(SYSTEM, <<"subagent">>, d, <<"d", "o", "n", "e">>) :
            d \in {<<"t", "g", ":", "4", ":", "2">>, <<"4", "2">>}}

\* what the session store may hold when the loop starts: nothing, or an
\* earlier exchange of the conversation
StoredSessions ==
    {<<>>,
     (TG \o <<":", "4", ":", "2">>) :>
        <<[role |-> "user", content |-> <<"h", "i">>],
          [role |-> "assistant", content |-> <<"answer">>]>>}

\* SessionManager.get_or_create: the session of the key, created empty on the
\* first reference
get_or_create(ss, key) == IF key \in DOMAIN ss THEN ss ELSE (key :> <<>>) @@ ss

\* Session.add_message
add_message(ss, key, role, content) ==
    [ss EXCEPT ![key] = Append(@, [role |-> role, content |-> content])]

\* the mutant of clear: the stored messages are left in place
clear_nothing(ss, key) == ss

\* Session.clear
clear(ss, key) == [ss EXCEPT ![key] = <<>>]

\* get_history's max_messages
HistoryLimit == 50

\* Session.get_history
get_history(session) ==
    IF Len(session) > HistoryLimit
    THEN SubSeq(session, Len(session) - HistoryLimit + 1, Len(session))
    ELSE session

\* one turn of the provider-ready message sequence
ContextTurn(role, content, tool_calls, tool_call_id, name) ==
    [role |-> role, content |-> content, tool_calls |-> tool_calls,
     tool_call_id |-> tool_call_id, name |-> name]

\* ContextBuilder.build_messages: system prompt, history, the new user turn
build_messages(history, current_message) ==
    <<ContextTurn("system", Some(<<"system prompt">>), <<>>, "", "")>>
    \o [i \in 1..Len(history) |->
          ContextTurn(history[i].role, Some(history[i].content), <<>>, "", "")]
    \o <<ContextTurn("user", Some(current_message), <<>>, "", "")>>

\* ContextBuilder.add_assistant_message
add_assistant_message(messages, content, tool_calls) ==
    Append(messages, ContextTurn("assistant", content, tool_calls, "", ""))

\* ContextBuilder.add_tool_result
add_tool_result(messages, tool_call_id, tool_name, result) ==
    Append(messages, ContextTurn("tool", Some(result), <<>>, tool_call_id, tool_name))

ToolCall(id, name) == [id |-> id, name |-> name]

\* what the provider may answer: content (or None) and the requested tool calls
Responses ==
    {[content |-> Some(<<"answer">>), usage |-> Some(<<3, 1>>), tool_calls |-> <<>>],
     [content |-> None, usage |-> Some(<<3, 1>>), tool_calls |-> <<>>],
     [content |-> None, usage |-> Some(<<3, 1>>),
      tool_calls |-> <<ToolCall("call_1", "nope"), ToolCall("call_2", "read_file")>>],
     [content |-> Some(<<"working">>), usage |-> Some(<<3, 1>>),
      tool_calls |-> <<ToolCall("call_1", "read_file"), ToolCall("call_2", "nope")>>]}

\* HonchoTool: the name it registers under, the name _process_message looks
\* it up by, and the text execute returns while no context is set
HonchoToolName == "honcho_query"
HonchoToolLookup == "query_user_context"
NoUserContextError == <<"Error: No user context set. Unable to query Honcho.">>

\* the update of the query tool's context at the start of a turn:
\* tools.get(...) by the lookup name, set_context(session_key) when a
\* HonchoTool is found
UpdateHonchoContext(registered, current, key) ==
    IF HonchoToolLookup \in registered THEN Some(key) ELSE current

\* HonchoTool.execute: the error text without a context, otherwise the
\* client's answer about that user, or the text of the client's exception
HonchoToolExecute(current, outcome) ==
    IF current = None THEN NoUserContextError
    ELSE IF outcome = "ok" THEN <<"insight about ">> \o current[1]
    ELSE <<"Error querying Honcho: ", "unreachable">>

\* the names the registry holds (of the default tools, the ones the model uses)
Registered == {"read_file", "spawn"}
\* how a registered tool's own execution ends
ToolOutcomes == {"ok", "raise"}

\* the acknowledgement SubagentManager.spawn returns
SpawnAck == <<"Spawned subagent: ", "task">>

\* ToolRegistry.execute: an unknown name and a failing tool both come back as
\* error text
RegistryExecute(name, outcome) ==
    IF name \notin Registered THEN <<"Error: Tool '", name, "' not found">>
    ELSE IF outcome = "raise" THEN <<"Error executing ", name, ": ", "failure">>
    ELSE IF name = "spawn" THEN SpawnAck
    ELSE <<"result of ", name>>

\* subagents one run spawns
MaxSubagents == 2

\* the mutant of SpawnToolExecute: the origin the tool was constructed with
SpawnToolExecuteDefaultOrigin(origin) ==
    [origin_channel |-> DefaultOrigin.channel, origin_chat_id |-> DefaultOrigin.chat_id]

\* SpawnTool.execute: what it passes to the manager's spawn as the origin
SpawnToolExecute(origin) ==
    [origin_channel |-> origin.channel, origin_chat_id |-> origin.chat_id]

\* the mutant of manager_spawn: the subagent is run to its end before spawn
\* returns
manager_spawn_inline(subs, args, spawned_in) ==
    Append(subs, [origin_channel |-> args.origin_channel,
                  origin_chat_id |-> args.origin_chat_id,
                  spawned_in |-> spawned_in, state |-> "finished",
                  ending |-> "", announced |-> <<>>])

\* SubagentManager.spawn: the subagent is started as a task of its own and
\* runs; spawned_in records the turn that spawned it
manager_spawn(subs, args, spawned_in) ==
    Append(subs, [origin_channel |-> args.origin_channel,
                  origin_chat_id |-> args.origin_chat_id,
                  spawned_in |-> spawned_in, state |-> "running",
                  ending |-> "", announced |-> <<>>])

\* the fields SpendBudget's generated __init__ takes, and the keywords
\* _process_message passes to it
BudgetFields ==
    {"max_spend_dollars", "spent_dollars", "input_tokens", "output_tokens", "_calls"}
LoopBudgetKeywords ==
    {"max_spend_dollars", "input_price_per_million", "output_price_per_million"}
\* the methods SpendBudget defines
BudgetMethods == {"add_cost", "get_summary", "get_detailed_summary"}

\* SpendBudget(**keywords): a keyword that is no field raises TypeError
ConstructBudget(keywords, m) ==
    IF keywords \subseteq BudgetFields
    THEN [raised |-> None, value |-> Some(NewBudget(m))]
    ELSE [raised |-> Some("TypeError: unexpected keyword argument"), value |-> None]

\* Python truth of max_spend_dollars: None and 0 are false
Truthy(ceiling) == ceiling # None /\ ceiling[1] # 0

---------------------------------------------------------------------------
(* The agent loop (agent/loop.py).  run() takes one inbound message at a   *)
(* time; a turn is suspended only where it awaits the provider or a tool.  *)

honcho_prefetch == TRUE

\* whether the turn calls get_prefetch_context: the flag, the setting and the
\* isinstance test
PrefetchAttempted ==
    honcho_enabled /\ honcho_prefetch /\ sessions_class = "HonchoSessionManager"

\* the mutant of IsSystem: no message is taken for a system message
IsSystemNever(m) == FALSE

\* msg.channel == "system"
IsSystem(m) == m.channel = SYSTEM

\* the mutant of CommandText: the content is lowered but not stripped
CommandTextNoStrip(m) == Lower(m.content)

\* _handle_command's normal form of the content
CommandText(m) == Lower(Strip(m.content))

IsCommand(m) == CommandText(m) \in {CmdClear, CmdReset, CmdNew, CmdStatus, CmdHelp}

ClearedText == <<"Session cleared. Starting fresh conversation.">>

StatusText(key, msg_count) ==
    <<"Session: ">> \o key
    \o <<"\nMessages: ", ToString(msg_count), "\nHoncho: ",
         IF honcho_enabled THEN "enabled" ELSE "disabled",
         " (prefetch: ", IF honcho_prefetch THEN "on" ELSE "off", ")">>

HelpText ==
    <<"Commands:\n/clear - Clear conversation history\n/status - Show session info\n/help - Show this help">>

NoResponseText == <<"I've completed processing but have no response to give.">>
BackgroundDoneText == <<"Background task completed.">>
BudgetNotice(b) == <<"I've reached my budget limit for this request. ">> \o get_summary(b)
ErrorNotice(e) == <<"Sorry, I encountered an error: ", e>>

\* the origin a system message's chat_id carries: "channel:chat_id", or the
\* fallback channel "cli"
ParseOrigin(chat_id) ==
    IF Contains(chat_id, ":")
    THEN LET parts == SplitFirst(chat_id, ":")
         IN  [channel |-> parts[1], chat_id |-> parts[2]]
    ELSE [channel |-> CLI, chat_id |-> chat_id]

\* the content the turn ends with
FinalContent(m, t, b) ==
    IF IsSystem(m)
    THEN IF t.final_content = None THEN BackgroundDoneText ELSE t.final_content[1]
    ELSE IF t.budget_exhausted /\ b # None THEN BudgetNotice(b[1])
    ELSE IF t.final_content = None THEN NoResponseText
    ELSE t.final_content[1]

\* the mutant of StoredUserContent: an announce is stored like a user message
StoredUserContentUntagged(m) == m.content

\* the user turn as it is stored in the session
StoredUserContent(m) ==
    IF IsSystem(m) THEN <<"[System: ">> \o m.sender_id \o <<"] ">> \o m.content
    ELSE m.content

\* the mutant of Finish: the assistant turn is stored before the user turn
FinishAssistantFirst(m, t, ss, b) ==
    LET content == FinalContent(m, t, b)
        ss1 == add_message(ss, t.session_key, "assistant", content)
        ss2 == add_message(ss1, t.session_key, "user", StoredUserContent(m))
    IN  /\ sessions' = ss2
        /\ turn' = [t EXCEPT !.final_content = Some(content), !.saves = @ + 1]
        /\ outbound' = <<OutboundMessage(t.origin_channel, t.origin_chat_id, content)>>
        /\ pc' = "done"
        /\ error' = None

\* the end of a turn: both turns are added to the session, the session is
\* saved, and run() publishes the returned message
Finish(m, t, ss, b) ==
    LET content == FinalContent(m, t, b)
        ss1 == add_message(ss, t.session_key, "user", StoredUserContent(m))
        ss2 == add_message(ss1, t.session_key, "assistant", content)
    IN  /\ sessions' = ss2
        /\ turn' = [t EXCEPT !.final_content = Some(content), !.saves = @ + 1]
        /\ outbound' = <<OutboundMessage(t.origin_channel, t.origin_chat_id, content)>>
        /\ pc' = "done"
        /\ error' = None

\* the mutant of Fail: a response is published as well as the error notice
FailWithResponse(m, t, ss, e) ==
    /\ sessions' = ss
    /\ turn' = t
    /\ outbound' = <<OutboundMessage(m.channel, m.chat_id, NoResponseText),
                     OutboundMessage(m.channel, m.chat_id, ErrorNotice(e))>>
    /\ pc' = "failed"
    /\ error' = Some(e)

\* the mutant of Fail: the exception leaves run() and the loop stops
FailStops(m, t, ss, e) ==
    /\ sessions' = ss
    /\ turn' = t
    /\ outbound' = <<>>
    /\ pc' = "stopped"
    /\ error' = Some(e)

\* the mutant of Fail: the user turn is stored before the exception leaves
FailStoresUserTurn(m, t, ss, e) ==
    /\ sessions' = add_message(ss, t.session_key, "user", StoredUserContent(m))
    /\ turn' = t
    /\ outbound' = <<OutboundMessage(m.channel, m.chat_id, ErrorNotice(e))>>
    /\ pc' = "failed"
    /\ error' = Some(e)

\* run()'s except branch: the error notice goes to the inbound's own channel
\* and chat_id
Fail(m, t, ss, e) ==
    /\ sessions' = ss
    /\ turn' = t
    /\ outbound' = <<OutboundMessage(m.channel, m.chat_id, ErrorNotice(e))>>
    /\ pc' = "failed"
    /\ error' = Some(e)

\* the head of the iteration: while iteration < max_iterations, count the
\* iteration, stop on an exhausted budget (user turns only), else call the model
LoopHead(m, t, ss, b) ==
    IF t.iteration < MaxIterations
    THEN LET t1 == [t EXCEPT !.iteration = @ + 1]
         IN  IF ~IsSystem(m) /\ b # None /\ is_exhausted(b[1])
             THEN Finish(m, [t1 EXCEPT !.budget_exhausted = TRUE], ss, b)
             ELSE /\ sessions' = ss
                  /\ turn' = t1
                  /\ outbound' = <<>>
                  /\ pc' = "calling"
                  /\ error' = None
    ELSE Finish(m, t, ss, b)

\* the mutant of consume_inbound: the newest queued message is taken
consume_inbound_newest(queue) == queue[Len(queue)]

\* MessageBus.consume_inbound: the oldest queued message
consume_inbound(queue) == Head(queue)

Between == pc \in {"idle", "done", "failed", "command"}

Init ==
    /\ budget = None
    /\ passed = <<>>
    /\ shared = <<>>
    /\ max_spend_dollars \in {None, Some(0), Some(10)}
    /\ honcho_enabled = FALSE
    /\ sessions_class = "SessionManager"
    /\ tools = Registered
    /\ init_raised = FALSE
    /\ NoRemote
    /\ Started
    /\ inbound = <<>>
    /\ arrived = 0
    /\ pc = "idle"
    /\ msg = None
    /\ prev = None
    /\ sessions \in StoredSessions
    /\ turn = EmptyTurn
    /\ outbound = <<>>
    /\ error = None

\* the transport (or a subagent's announce) publishes an inbound message
Arrive(m) ==
    /\ arrived < MaxInbound
    /\ inbound' = Append(inbound, m)
    /\ arrived' = arrived + 1
    /\ UNCHANGED <<budget, passed, shared, max_spend_dollars, honcho_enabled, ctorVars,
                   taskVars, sideVars, remoteVars, pc, msg,
                   prev, sessions, turn, outbound, error>>

\* run() takes a command: _handle_command answers it, no model is called
ConsumeCommand ==
    /\ Between
    /\ inbound # <<>>
    /\ LET m == consume_inbound(inbound)
           key == session_key(m)
           content == CommandText(m)
           ss == get_or_create(sessions, key)
           t == [EmptyTurn EXCEPT !.session_key = key]
       IN  /\ ~IsSystem(m)
           /\ IsCommand(m)
           /\ inbound' = Tail(inbound)
           /\ prev' = msg
           /\ msg' = Some(m)
           /\ turn' = [t EXCEPT !.saves =
                          IF content \in {CmdClear, CmdReset, CmdNew} THEN 1 ELSE 0]
           /\ pc' = "command"
           /\ error' = None
           /\ IF content \in {CmdClear, CmdReset, CmdNew}
              THEN /\ sessions' = clear(ss, key)
                   /\ outbound' = <<OutboundMessage(m.channel, m.chat_id, ClearedText)>>
              ELSE IF content = CmdStatus
              THEN /\ sessions' = ss
                   /\ outbound' = <<OutboundMessage(m.channel, m.chat_id,
                                                    StatusText(key, Len(ss[key])))>>
              ELSE /\ sessions' = sessions
                   /\ outbound' = <<OutboundMessage(m.channel, m.chat_id, HelpText)>>
    /\ UNCHANGED <<budget, passed, shared, max_spend_dollars, honcho_enabled, ctorVars,
                   taskVars, sideVars, remoteVars, arrived>>

\* run() takes a user message that is no command: session, context, budget,
\* then the first iteration up to the model call
ConsumeUser ==
    /\ Between
    /\ inbound # <<>>
    /\ LET m == consume_inbound(inbound)
           key == session_key(m)
           ss == get_or_create(sessions, key)
           t == [EmptyTurn EXCEPT
                   !.session_key = key,
                   !.origin_channel = m.channel,
                   !.origin_chat_id = m.chat_id,
                   !.prefetch_attempted = PrefetchAttempted,
                   !.messages = build_messages(get_history(ss[key]), m.content)]
           made == IF Truthy(max_spend_dollars)
                   THEN ConstructBudget(LoopBudgetKeywords, max_spend_dollars[1])
                   ELSE [raised |-> None, value |-> None]
       IN  /\ ~IsSystem(m)
           /\ ~IsCommand(m)
           /\ inbound' = Tail(inbound)
           /\ prev' = msg
           /\ msg' = Some(m)
           /\ budget' = made.value
           /\ spawn_origin' = set_context(m.channel, m.chat_id)
           /\ honcho_context' = UpdateHonchoContext(tools, honcho_context, key)
           /\ IF made.raised # None
              THEN Fail(m, t, ss, made.raised[1])
              ELSE LoopHead(m, t, ss, made.value)
    /\ UNCHANGED <<passed, shared, max_spend_dollars, honcho_enabled, ctorVars, running,
                   subagents, remoteVars, arrived, direct, chunked>>

\* run() takes a system message (a subagent's announce): the origin is parsed
\* out of chat_id, then the first iteration up to the model call
ConsumeSystem ==
    /\ Between
    /\ inbound # <<>>
    /\ LET m == consume_inbound(inbound)
           origin == ParseOrigin(m.chat_id)
           key == origin.channel \o <<":">> \o origin.chat_id
           ss == get_or_create(sessions, key)
           t == [EmptyTurn EXCEPT
                   !.session_key = key,
                   !.origin_channel = origin.channel,
                   !.origin_chat_id = origin.chat_id,
                   !.prefetch_attempted = PrefetchAttempted,
                   !.messages = build_messages(get_history(ss[key]), m.content)]
       IN  /\ IsSystem(m)
           /\ inbound' = Tail(inbound)
           /\ prev' = msg
           /\ msg' = Some(m)
           /\ spawn_origin' = set_context(origin.channel, origin.chat_id)
           /\ honcho_context' = UpdateHonchoContext(tools, honcho_context, key)
           /\ LoopHead(m, t, ss, None)
    /\ UNCHANGED <<budget, passed, shared, max_spend_dollars, honcho_enabled, ctorVars,
                   running, subagents, remoteVars, arrived, direct, chunked>>

\* the provider raises: the exception leaves _process_message and run()
\* publishes the error notice
ProviderRaises ==
    /\ pc = "calling"
    /\ Fail(msg[1], [turn EXCEPT !.model_calls = @ + 1], sessions, "provider error")
    /\ UNCHANGED <<budget, passed, shared, max_spend_dollars, honcho_enabled, ctorVars,
                   taskVars, sideVars, remoteVars, inbound,
                   arrived, msg, prev>>

\* the provider answers: spend is tracked (user turns with a budget), then
\* either the assistant turn is added and the first tool dispatched, or the
\* content is the final answer
ProviderReturns(r) ==
    /\ pc = "calling"
    /\ LET m == msg[1]
           t1 == [turn EXCEPT !.model_calls = @ + 1,
                              !.all_tool_calls = @ /\ r.tool_calls # <<>>]
           tracks == ~IsSystem(m) /\ budget # None /\ r.usage # None
       IN  IF tracks /\ "add_usage" \notin BudgetMethods
           THEN Fail(m, t1, sessions, "AttributeError: add_usage")
           ELSE IF r.tool_calls # <<>>
           THEN /\ turn' = [t1 EXCEPT
                              !.messages = add_assistant_message(@, r.content, r.tool_calls),
                              !.tool_calls = r.tool_calls,
                              !.next_call = 1]
                /\ pc' = "dispatching"
                /\ UNCHANGED <<sessions, outbound, error>>
           ELSE Finish(m, [t1 EXCEPT !.final_content = r.content], sessions, budget)
    /\ UNCHANGED <<budget, passed, shared, max_spend_dollars, honcho_enabled, ctorVars,
                   taskVars, sideVars, remoteVars, inbound,
                   arrived, msg, prev>>

\* the mutant of ToolResultTurn: the result is filed under the tool's name
ToolResultTurnByName(messages, tool_call, result) ==
    add_tool_result(messages, tool_call.name, tool_call.name, result)

\* the mutant of ToolResultTurn: the result is put before the latest turn
ToolResultTurnOutOfOrder(messages, tool_call, result) ==
    SubSeq(add_tool_result(messages, tool_call.id, tool_call.name, result),
           1, Len(messages) - 1)
    \o <<add_tool_result(messages, tool_call.id, tool_call.name, result)[Len(messages) + 1],
          messages[Len(messages)]>>

\* the tool-result turn of one dispatched call
ToolResultTurn(messages, tool_call, result) ==
    add_tool_result(messages, tool_call.id, tool_call.name, result)

IsErrorText(result) == result[1] \in {"Error: Tool '", "Error executing "}

\* the mutant of MoreCalls: the dispatch loop stops at the first error result
MoreCallsUntilError(t) ==
    /\ t.next_call < Len(t.tool_calls)
    /\ ~IsErrorText(t.messages[Len(t.messages)].content[1])

\* for tool_call in response.tool_calls: whether a further call follows
MoreCalls(t) == t.next_call < Len(t.tool_calls)

\* tools.execute returns for the call being dispatched: its result is added
\* as a tool-result turn; then the next call, or the next iteration.  The
\* spawn tool has the manager start a subagent and returns its acknowledgement
ToolReturns(outcome) ==
    /\ pc = "dispatching"
    /\ LET m == msg[1]
           tool_call == turn.tool_calls[turn.next_call]
           result == IF tool_call.name = HonchoToolName /\ HonchoToolName \in tools
                     THEN HonchoToolExecute(honcho_context, outcome)
                     ELSE RegistryExecute(tool_call.name, outcome)
           t1 == [turn EXCEPT !.messages = ToolResultTurn(@, tool_call, result),
                              !.tool_dispatches = @ + 1]
           spawns == tool_call.name = "spawn" /\ "spawn" \in Registered
                     /\ outcome = "ok"
       IN  /\ spawns => Len(subagents) < MaxSubagents
           /\ subagents' =
                 IF spawns
                 THEN manager_spawn(subagents, SpawnToolExecute(spawn_origin),
                                    [channel |-> turn.origin_channel,
                                     chat_id |-> turn.origin_chat_id])
                 ELSE subagents
           /\ IF MoreCalls(t1)
              THEN /\ turn' = [t1 EXCEPT !.next_call = @ + 1]
                   /\ pc' = "dispatching"
                   /\ UNCHANGED <<sessions, outbound, error>>
              ELSE LoopHead(m, t1, sessions, budget)
    /\ UNCHANGED <<budget, passed, shared, max_spend_dollars, honcho_enabled, ctorVars,
                   running, spawn_origin, remoteVars, inbound, arrived, msg, prev,
                   sideVars>>

Next ==
    \/ \E m \in InboundMessages : Arrive(m)
    \/ ConsumeCommand
    \/ ConsumeUser
    \/ ConsumeSystem
    \/ ProviderRaises
    \/ \E r \in Responses : ProviderReturns(r)
    \/ \E outcome \in ToolOutcomes : ToolReturns(outcome)

Spec == Init /\ [][Next]_vars

---------------------------------------------------------------------------
(* The construction of the loop (AgentLoop.__init__), followed by turns.   *)

\* the tools only a loop on the Honcho store registers
RemoteOnlyTools == {"honcho_query", "edit_prompt"}
\* the parameters HonchoTool.__init__ takes, and the keywords
\* _register_default_tools passes to it
HonchoToolParameters == {"client"}
LoopHonchoToolKeywords == {"session_manager"}

\* how the import and construction of HonchoSessionManager end
InitOutcomes == {"ok", "raise"}

\* what is published inbound in the runs that start at construction
ConstructInbound ==
    {InboundMessage(TG, <<"user">>, <<"4", ":", "2">>, <<"h", "i">>),
     InboundMessage(TG, <<"user">>, <<"4", ":", "2">>, CmdStatus),
     InboundMessage(SYSTEM, <<"subagent">>, <<"t", "g", ":", "4", ":", "2">>,
                    <<"d", "o", "n", "e">>)}

\* __init__ up to the call of _init_session_manager: honcho_enabled is the
\* argument and the presence of HONCHO_API_KEY
InitConstruct ==
    /\ budget = None
    /\ passed = <<>>
    /\ shared = <<>>
    /\ max_spend_dollars = None
    /\ honcho_enabled \in BOOLEAN
    /\ sessions_class = "None"
    /\ tools = {}
    /\ init_raised = FALSE
    /\ NoRemote
    /\ running = FALSE
    /\ subagents = <<>>
    /\ spawn_origin = DefaultOrigin
    /\ NoSide
    /\ inbound = <<>>
    /\ arrived = 0
    /\ pc = "init_session_manager"
    /\ msg = None
    /\ prev = None
    /\ sessions \in StoredSessions
    /\ turn = EmptyTurn
    /\ outbound = <<>>
    /\ error = None

\* the mutant of InitSessionManager: the fallback leaves the flag set
InitSessionManagerKeepsFlag(outcome) ==
    /\ pc = "init_session_manager"
    /\ IF honcho_enabled
       THEN IF outcome = "ok"
            THEN /\ sessions_class' = "HonchoSessionManager"
                 /\ UNCHANGED <<honcho_enabled, init_raised>>
            ELSE /\ sessions_class' = "SessionManager"
                 /\ init_raised' = TRUE
                 /\ UNCHANGED honcho_enabled
       ELSE /\ outcome = "ok"
            /\ sessions_class' = "SessionManager"
            /\ UNCHANGED <<honcho_enabled, init_raised>>
    /\ pc' = "register_default_tools"
    /\ UNCHANGED <<budget, passed, shared, max_spend_dollars, tools, remoteVars, taskVars,
                   sideVars,
                   inbound, arrived, msg, prev, sessions, turn, outbound, error>>

\* _init_session_manager: the Honcho store when the flag is set and its
\* initialisation succeeds; the local store, with the flag cleared, when it
\* raises; the local store when the flag is not set
InitSessionManager(outcome) ==
    /\ pc = "init_session_manager"
    /\ IF honcho_enabled
       THEN IF outcome = "ok"
            THEN /\ sessions_class' = "HonchoSessionManager"
                 /\ UNCHANGED <<honcho_enabled, init_raised>>
            ELSE /\ sessions_class' = "SessionManager"
                 /\ honcho_enabled' = FALSE
                 /\ init_raised' = TRUE
       ELSE /\ outcome = "ok"
            /\ sessions_class' = "SessionManager"
            /\ UNCHANGED <<honcho_enabled, init_raised>>
    /\ pc' = "register_default_tools"
    /\ UNCHANGED <<budget, passed, shared, max_spend_dollars, tools, remoteVars, taskVars,
                   sideVars,
                   inbound, arrived, msg, prev, sessions, turn, outbound, error>>

\* _register_default_tools: the default tools, then on the Honcho store the
\* two Honcho tools; HonchoTool is called with a keyword it does not take.
\* run() is started on the loop that was constructed and sets the run flag.
RegisterDefaultTools ==
    /\ pc = "register_default_tools"
    /\ IF honcho_enabled /\ sessions_class = "HonchoSessionManager"
       THEN IF LoopHonchoToolKeywords \subseteq HonchoToolParameters
            THEN /\ tools' = Registered \cup RemoteOnlyTools
                 /\ pc' = "idle"
                 /\ UNCHANGED error
            ELSE /\ tools' = Registered
                 /\ pc' = "construction_failed"
                 /\ error' = Some("TypeError: unexpected keyword argument")
       ELSE /\ tools' = Registered
            /\ pc' = "idle"
            /\ UNCHANGED error
    /\ running' = (pc' = "idle")
    /\ UNCHANGED <<budget, passed, shared, max_spend_dollars, honcho_enabled,
                   sessions_class, init_raised, remoteVars, subagents, spawn_origin,
                   inbound, arrived, msg, prev, sessions, turn, outbound, sideVars>>

NextConstruct ==
    \/ \E outcome \in InitOutcomes : InitSessionManager(outcome)
    \/ RegisterDefaultTools
    \/ \E m \in ConstructInbound : Arrive(m)
    \/ ConsumeCommand
    \/ ConsumeUser
    \/ ConsumeSystem
    \/ ProviderRaises
    \/ \E r \in Responses : ProviderReturns(r)
    \/ \E outcome \in ToolOutcomes : ToolReturns(outcome)

SpecConstruct == InitConstruct /\ [][NextConstruct]_vars

---------------------------------------------------------------------------
(* HonchoSessionManager (honcho/session.py) and the calls a turn makes on  *)
(* it.  A session is its honcho_session_id and its messages, each with the *)
(* _synced mark; the service holds, per session id, the messages sent.     *)

AssistantPeerId == <<"nanobot-assistant">>

\* _sanitize_id: ":", "." and " " become "-"
SanitizeId(id_str) ==
    [i \in 1..Len(id_str) |-> IF id_str[i] \in {":", ".", " "} THEN "-" ELSE id_str[i]]

\* key.split(":", 1) as get_or_create reads it: channel and chat_id
KeyChannel(key) ==
    IF Len(SplitFirst(key, ":")) > 1 THEN SplitFirst(key, ":")[1] ELSE <<"default">>
KeyChatId(key) ==
    IF Len(SplitFirst(key, ":")) > 1 THEN SplitFirst(key, ":")[2] ELSE key

UserPeerId(key) == SanitizeId(<<"user-">> \o KeyChannel(key) \o <<"-">> \o KeyChatId(key))

\* how a call on the Honcho service ends; "context_raise": the session is
\* got, its context() raises
BackendOutcomes == {"ok", "raise", "context_raise"}
\* how one context() or add_messages call on the service ends
CallOutcomes == {"ok", "raise"}
\* what the provider answers when it requests no tool
Answers == {r \in Responses : r.tool_calls = <<>>}

\* datetime.min, the sort key of a message without created_at; the
\* service's timestamps are later
DatetimeMin == 0

\* lambda m: m.created_at or datetime.min
SortKey(m) == IF m.created_at # None THEN m.created_at[1] ELSE DatetimeMin

\* sorted(..., key=...) with keys[i] the key of s[i]: a stable sort; an
\* element's place is the number of elements with a smaller key, or with the
\* same key and before it
SortedBy(s, keys) ==
    LET place(i) ==
            1 + Cardinality({j \in 1..Len(s) :
                               \/ keys[j] < keys[i]
                               \/ keys[j] = keys[i] /\ j < i})
    IN  [p \in 1..Len(s) |-> s[CHOOSE i \in 1..Len(s) : place(i) = p]]

\* the sort keys of a list of messages
SortKeys(messages) == [i \in 1..Len(messages) |-> SortKey(messages[i])]

\* the created_at values that are present, in the messages' order
Timestamps(messages) ==
    LET present == SelectSeq(messages, LAMBDA m : m.created_at # None)
    IN  [i \in 1..Len(present) |-> present[i].created_at[1]]

\* the mutant of LoadExisting: the messages without created_at are left out
\* of the sorted list
LoadExistingTimestamped(messages) ==
    IF Len(messages) > 1 /\ Timestamps(messages) # <<>>
       /\ Timestamps(messages) # SortedBy(Timestamps(messages), Timestamps(messages))
    THEN LET present == SelectSeq(messages, LAMBDA m : m.created_at # None)
         IN  SortedBy(present, SortKeys(present))
    ELSE messages

\* the repair of chronological order in _get_or_create_honcho_session: when
\* the created_at values present are not in order, the messages are sorted
\* by created_at, those without one first
LoadExisting(messages) ==
    IF Len(messages) > 1 /\ Timestamps(messages) # <<>>
       /\ Timestamps(messages) # SortedBy(Timestamps(messages), Timestamps(messages))
    THEN SortedBy(messages, SortKeys(messages))
    ELSE messages

\* the local form of the loaded messages: the role from the peer, the
\* content, the timestamp, and the _synced mark
LocalMessages(existing_messages) ==
    [i \in 1..Len(existing_messages) |->
       [role |-> IF existing_messages[i].peer_id = AssistantPeerId
                 THEN "assistant" ELSE "user",
        content |-> existing_messages[i].content,
        timestamp |-> existing_messages[i].created_at,
        synced |-> TRUE]]

\* the mutant of honcho_get_or_create: the cache of sessions is not looked at
honcho_get_or_create_uncached(hm, be, key, outcome) ==
    IF outcome = "raise" /\ SanitizeId(key) \notin hm.sessions_cache
    THEN [raised |-> TRUE, contacted |-> TRUE, manager |-> hm,
          returned |-> <<>>, loaded |-> <<>>]
    ELSE LET id == SanitizeId(key)
             returned ==
                 IF id \in hm.sessions_cache \/ outcome = "context_raise"
                    \/ id \notin DOMAIN be
                 THEN <<>>
                 ELSE be[id]
             existing_messages == LoadExisting(returned)
         IN  [raised |-> FALSE,
              contacted |-> id \notin hm.sessions_cache,
              returned |-> returned,
              loaded |-> existing_messages,
              manager |-> [cache |-> (key :> [honcho_session_id |-> id,
                                              oid |-> hm.created + 1,
                                              messages |->
                                                 LocalMessages(existing_messages)])
                                     @@ hm.cache,
                           sessions_cache |-> hm.sessions_cache \cup {id},
                           created |-> hm.created + 1,
                           added |-> hm.added]]

\* HonchoSessionManager.get_or_create: a cached session is returned as it
\* is; else peers and session are got from the service (an exception of
\* these calls leaves get_or_create), the messages are loaded through
\* context() (an exception there means no messages; a Honcho session that
\* is cached is not asked again) and a new HonchoSession is cached
honcho_get_or_create(hm, be, key, outcome) ==
    IF key \in DOMAIN hm.cache
    THEN [raised |-> FALSE, contacted |-> FALSE, manager |-> hm,
          returned |-> <<>>, loaded |-> <<>>]
    ELSE IF outcome = "raise" /\ SanitizeId(key) \notin hm.sessions_cache
    THEN [raised |-> TRUE, contacted |-> TRUE, manager |-> hm,
          returned |-> <<>>, loaded |-> <<>>]
    ELSE LET id == SanitizeId(key)
             returned ==
                 IF id \in hm.sessions_cache \/ outcome = "context_raise"
                    \/ id \notin DOMAIN be
                 THEN <<>>
                 ELSE be[id]
             existing_messages == LoadExisting(returned)
         IN  [raised |-> FALSE,
              contacted |-> id \notin hm.sessions_cache,
              returned |-> returned,
              loaded |-> existing_messages,
              manager |-> [cache |-> (key :> [honcho_session_id |-> id,
                                              oid |-> hm.created + 1,
                                              messages |->
                                                 LocalMessages(existing_messages)])
                                     @@ hm.cache,
                           sessions_cache |-> hm.sessions_cache \cup {id},
                           created |-> hm.created + 1,
                           added |-> hm.added]]

\* the user context of a turn: a mapping is a set of (key, value) pairs
EmptyMapping == {}
ContextMapping == {<<"representation", "likes tea">>, <<"card", "">>}

\* the mutant of get_prefetch_context: the service's exception is not caught
get_prefetch_context_uncaught(hm, session_key_, outcome) ==
    IF session_key_ \notin DOMAIN hm.cache
    THEN [raised |-> FALSE, value |-> EmptyMapping]
    ELSE IF hm.cache[session_key_].honcho_session_id \notin hm.sessions_cache
    THEN [raised |-> FALSE, value |-> EmptyMapping]
    ELSE IF outcome = "ok"
    THEN [raised |-> FALSE, value |-> ContextMapping]
    ELSE [raised |-> TRUE, value |-> EmptyMapping]

\* HonchoSessionManager.get_prefetch_context: {} when the session or its
\* Honcho session is not cached, and when context() raises
get_prefetch_context(hm, session_key_, outcome) ==
    IF session_key_ \notin DOMAIN hm.cache
    THEN [raised |-> FALSE, value |-> EmptyMapping]
    ELSE IF hm.cache[session_key_].honcho_session_id \notin hm.sessions_cache
    THEN [raised |-> FALSE, value |-> EmptyMapping]
    ELSE IF outcome = "ok"
    THEN [raised |-> FALSE, value |-> ContextMapping]
    ELSE [raised |-> FALSE, value |-> EmptyMapping]

\* the loop's pre-fetch step: only on the Honcho store with the flag and the
\* setting on; an exception of the call is logged and leaves None
PrefetchUserContext(hm, key, outcome) ==
    IF ~PrefetchAttempted THEN None
    ELSE IF get_prefetch_context(hm, key, outcome).raised THEN None
    ELSE Some(get_prefetch_context(hm, key, outcome).value)

\* HonchoSession.add_message on a session of the manager: a new message has
\* no _synced mark
honcho_add_message(session, role, content) ==
    [session EXCEPT !.messages =
        Append(@, [role |-> role, content |-> content, timestamp |-> None,
                   synced |-> FALSE])]

\* peer.message(content) for each message in the list sent
HonchoMessages(key, new_messages) ==
    [i \in 1..Len(new_messages) |->
       [peer_id |-> IF new_messages[i].role = "user" THEN UserPeerId(key)
                    ELSE AssistantPeerId,
        content |-> new_messages[i].content]]

\* the latest created_at the service has given in a session
LastStamp(stored) ==
    IF Timestamps(stored) = <<>> THEN DatetimeMin
    ELSE CHOOSE x \in {Timestamps(stored)[i] : i \in 1..Len(Timestamps(stored))} :
            \A i \in 1..Len(Timestamps(stored)) : Timestamps(stored)[i] <= x

\* session.add_messages accepted by the service: the messages are stored
\* after those it holds, each with a later created_at
Accept(stored, honcho_messages) ==
    stored \o [i \in 1..Len(honcho_messages) |->
                 [peer_id |-> honcho_messages[i].peer_id,
                  content |-> honcho_messages[i].content,
                  created_at |-> Some(LastStamp(stored) + i)]]

\* the mutant of honcho_save: every message of the session is sent, marked
\* or not
honcho_save_resends(hm, be, key, session, outcome) ==
    LET id == session.honcho_session_id
        cached == id \in hm.sessions_cache
        new_messages == session.messages
        marked(v) == [i \in 1..Len(session.messages) |->
                        [session.messages[i] EXCEPT !.synced = @ \/ v]]
        accepted == cached /\ outcome = "ok"
        got == [hm EXCEPT !.sessions_cache = @ \cup {id}]
        stored == IF id \in DOMAIN be THEN be[id] ELSE <<>>
    IN  IF session.messages = <<>>
        THEN [raised |-> FALSE, manager |-> hm, service |-> be, sent |-> <<>>,
              accepted |-> FALSE]
        ELSE IF ~cached /\ outcome = "raise"
        THEN [raised |-> TRUE, manager |-> hm, service |-> be, sent |-> <<>>,
              accepted |-> FALSE]
        ELSE IF new_messages = <<>>
        THEN [raised |-> FALSE, manager |-> got, service |-> be, sent |-> <<>>,
              accepted |-> FALSE]
        ELSE [raised |-> FALSE,
              manager |->
                 [got EXCEPT !.cache =
                    (key :> [session EXCEPT !.messages = marked(accepted)]) @@ @],
              service |->
                 IF accepted
                 THEN (id :> Accept(stored, HonchoMessages(key, new_messages))) @@ be
                 ELSE be,
              sent |-> IF cached THEN HonchoMessages(key, new_messages) ELSE <<>>,
              accepted |-> accepted]

\* HonchoSessionManager.save: nothing is done for a session without
\* messages; the messages without the _synced mark are marked and sent, in
\* their order, in one add_messages call, and unmarked again when it raises;
\* the session is put in the cache.  A Honcho session that is not cached is
\* got first (that call is outside the try and caches it); what save then
\* holds is the pair _get_or_create_honcho_session returns, on which
\* add_messages raises inside the try, so nothing is sent.
honcho_save(hm, be, key, session, outcome) ==
    LET id == session.honcho_session_id
        cached == id \in hm.sessions_cache
        new_messages == SelectSeq(session.messages, LAMBDA m : ~m.synced)
        marked(v) == [i \in 1..Len(session.messages) |->
                        [session.messages[i] EXCEPT !.synced = @ \/ v]]
        accepted == cached /\ outcome = "ok"
        got == [hm EXCEPT !.sessions_cache = @ \cup {id}]
        stored == IF id \in DOMAIN be THEN be[id] ELSE <<>>
    IN  IF session.messages = <<>>
        THEN [raised |-> FALSE, manager |-> hm, service |-> be, sent |-> <<>>,
              accepted |-> FALSE]
        ELSE IF ~cached /\ outcome = "raise"
        THEN [raised |-> TRUE, manager |-> hm, service |-> be, sent |-> <<>>,
              accepted |-> FALSE]
        ELSE IF new_messages = <<>>
        THEN [raised |-> FALSE, manager |-> got, service |-> be, sent |-> <<>>,
              accepted |-> FALSE]
        ELSE [raised |-> FALSE,
              manager |->
                 [got EXCEPT !.cache =
                    (key :> [session EXCEPT !.messages = marked(accepted)]) @@ @],
              service |->
                 IF accepted
                 THEN (id :> Accept(stored, HonchoMessages(key, new_messages))) @@ be
                 ELSE be,
              sent |-> IF cached THEN HonchoMessages(key, new_messages) ELSE <<>>,
              accepted |-> accepted]

\* turns a loop on the Honcho store takes
MaxRemoteTurns == 2

RemoteKeys == {TG \o <<":", "4", ":", "2">>, CLI \o <<":", "7">>}
RemoteInbound ==
    {InboundMessage(TG, <<"user">>, <<"4", ":", "2">>, <<"h", "i">>),
     InboundMessage(CLI, <<"user">>, <<"7">>, <<"h", "i">>)}

\* what the service may hold at the start: nothing, or an earlier exchange
BackendStored ==
    {<<>>,
     SanitizeId(TG \o <<":", "4", ":", "2">>) :>
        <<[peer_id |-> UserPeerId(TG \o <<":", "4", ":", "2">>),
           content |-> <<"h", "i">>, created_at |-> Some(1)],
          [peer_id |-> AssistantPeerId, content |-> <<"answer">>,
           created_at |-> Some(2)]>>}

\* a HonchoSessionManager in use as the store of _process_message
InitRemote ==
    /\ budget = None
    /\ passed = <<>>
    /\ shared = <<>>
    /\ max_spend_dollars = None
    /\ honcho_enabled = TRUE
    /\ sessions_class = "HonchoSessionManager"
    /\ tools = Registered
    /\ init_raised = FALSE
    /\ honcho_manager = EmptyManager
    /\ backend \in BackendStored
    /\ call = None
    /\ Started
    /\ inbound = <<>>
    /\ arrived = 0
    /\ pc = "idle"
    /\ msg = None
    /\ prev = None
    /\ sessions = <<>>
    /\ turn = EmptyTurn
    /\ outbound = <<>>
    /\ error = None

\* get_prefetch_context called on the manager
CallGetPrefetchContext(key, outcome) ==
    /\ Between
    /\ LET c == get_prefetch_context(honcho_manager, key, outcome)
       IN  call' = Some([op |-> "get_prefetch_context", key |-> key,
                         outcome |-> outcome, raised |-> c.raised,
                         contacted |-> key \in DOMAIN honcho_manager.cache,
                         value |-> c.value])
    /\ UNCHANGED <<budget, passed, shared, max_spend_dollars, honcho_enabled, ctorVars,
                   taskVars, sideVars, honcho_manager, backend, inbound, arrived, pc, msg,
                   prev, sessions, turn, outbound, error>>

\* one user turn on the Honcho store, the model answering at once: run()
\* takes the message, _process_message gets the session, pre-fetches, builds
\* the context, calls the model, adds both turns, saves and returns; an
\* exception of any of these reaches run()'s except branch
RemoteTurn(m, get_outcome, prefetch_outcome, r, save_outcome) ==
    /\ Between
    /\ arrived < MaxRemoteTurns
    /\ LET key == session_key(m)
           g == honcho_get_or_create(honcho_manager, backend, key, get_outcome)
           session == g.manager.cache[key]
           user_context == PrefetchUserContext(g.manager, key, prefetch_outcome)
           t == [EmptyTurn EXCEPT
                   !.session_key = key,
                   !.origin_channel = m.channel,
                   !.origin_chat_id = m.chat_id]
           t1 == [t EXCEPT
                   !.prefetch_attempted = PrefetchAttempted,
                   !.user_context = user_context,
                   !.messages = build_messages(get_history(session.messages), m.content),
                   !.iteration = 1,
                   !.model_calls = 1,
                   !.all_tool_calls = FALSE,
                   !.final_content = r.content]
           content == FinalContent(m, t1, None)
           added == honcho_add_message(honcho_add_message(session, "user", m.content),
                                       "assistant", content)
           held == [g.manager EXCEPT !.cache = (key :> added) @@ @]
           sv == honcho_save(held, backend, key, added, save_outcome)
       IN  /\ arrived' = arrived + 1
           /\ prev' = msg
           /\ msg' = Some(m)
           /\ call' = Some([op |-> "turn", key |-> key, outcome |-> get_outcome,
                            raised |-> g.raised, contacted |-> g.contacted,
                            value |-> EmptyMapping,
                            prefetch_failed |-> ~g.raised /\ PrefetchAttempted
                                                /\ prefetch_outcome # "ok",
                            save_failed |-> ~g.raised /\ save_outcome # "ok"])
           /\ spawn_origin' = IF g.raised THEN spawn_origin
                              ELSE set_context(m.channel, m.chat_id)
           /\ honcho_context' = IF g.raised THEN honcho_context
                                ELSE UpdateHonchoContext(tools, honcho_context, key)
           /\ IF g.raised
              THEN /\ Fail(m, t, sessions, "Honcho error")
                   /\ honcho_manager' = g.manager
                   /\ backend' = backend
              ELSE IF sv.raised
              THEN /\ Fail(m, t1, sessions, "Honcho error")
                   /\ honcho_manager' = held
                   /\ backend' = backend
              ELSE /\ honcho_manager' = sv.manager
                   /\ backend' = sv.service
                   /\ turn' = [t1 EXCEPT !.final_content = Some(content), !.saves = 1]
                   /\ outbound' = <<OutboundMessage(m.channel, m.chat_id, content)>>
                   /\ pc' = "done"
                   /\ error' = None
                   /\ sessions' = sessions
    /\ UNCHANGED <<budget, passed, shared, max_spend_dollars, honcho_enabled, ctorVars,
                   running, subagents, inbound, direct, chunked>>

NextRemote ==
    \/ \E key \in RemoteKeys, outcome \in CallOutcomes :
          CallGetPrefetchContext(key, outcome)
    \/ \E m \in RemoteInbound, get_outcome \in BackendOutcomes,
          prefetch_outcome \in CallOutcomes, r \in Answers,
          save_outcome \in CallOutcomes :
          RemoteTurn(m, get_outcome, prefetch_outcome, r, save_outcome)

SpecRemote == InitRemote /\ [][NextRemote]_vars

---------------------------------------------------------------------------
(* Claims about the agent loop, checked under Spec.                        *)

TurnEnded == pc \in {"done", "failed"}

\* the budget the configured ceiling stands for: created with nothing spent
CeilingBudget == NewBudget(max_spend_dollars[1])

FallbackText == IF IsSystem(msg[1]) THEN BackgroundDoneText ELSE NoResponseText
ContentsGiven ==
    {turn.messages[i].content[1] :
        i \in {j \in 1..Len(turn.messages) :
                 /\ turn.messages[j].role = "assistant"
                 /\ turn.messages[j].tool_calls # <<>>
                 /\ turn.messages[j].content # None}}

\* C6: a turn whose budget is not exhausted and whose every model response
\* carries a tool call ends normally, without an exception, after exactly
\* max_iterations model calls, and its outbound content is the last
\* available content or the fallback text.
C6_CapEndsEveryToolCallingTurn ==
    (/\ TurnEnded
     /\ turn.all_tool_calls
     /\ ~turn.budget_exhausted
     /\ error # Some("provider error"))
    => /\ pc = "done"
       /\ turn.model_calls = MaxIterations
       /\ Len(outbound) = 1
       /\ outbound[1].channel = turn.origin_channel
       /\ outbound[1].chat_id = turn.origin_chat_id
       /\ outbound[1].content \in {FallbackText} \cup ContentsGiven

\* C6 where no ceiling is configured, and in system turns: the cap ends the
\* turn normally after exactly max_iterations model calls.
C6_CapWithoutBudget ==
    /\ turn.model_calls <= MaxIterations
    /\ (/\ TurnEnded
        /\ turn.all_tool_calls
        /\ IsSystem(msg[1]) \/ ~Truthy(max_spend_dollars)
        /\ error # Some("provider error"))
       => /\ pc = "done"
          /\ turn.model_calls = MaxIterations
          /\ outbound = <<OutboundMessage(turn.origin_channel, turn.origin_chat_id,
                                          FallbackText)>>

IsClearCommand(m) == ~IsSystem(m) /\ CommandText(m) \in {CmdClear, CmdReset, CmdNew}
IsStatusCommand(m) == ~IsSystem(m) /\ CommandText(m) = CmdStatus

StatusAfterClear ==
    /\ pc = "command"
    /\ prev # None
    /\ IsClearCommand(prev[1])
    /\ IsStatusCommand(msg[1])
    /\ session_key(prev[1]) = session_key(msg[1])

\* C7: /status processed right after /clear, /reset or /new on the same
\* session key reports a message count of 0.
C7_StatusAfterClearReportsZero ==
    StatusAfterClear
    => outbound = <<OutboundMessage(msg[1].channel, msg[1].chat_id,
                                    StatusText(session_key(msg[1]), 0))>>

C7_Witness ==
    /\ StatusAfterClear
    /\ CommandText(prev[1]) # prev[1].content
    /\ sessions[session_key(msg[1])] = <<>>

\* C8: a system message whose chat_id is c + ":" + d, c without ":", yields an
\* outbound message to channel c and chat d, and the turn reads and writes
\* the session keyed c + ":" + d.
C8_OriginRoundTrip ==
    (pc = "done" /\ IsSystem(msg[1]))
    => \A i \in 1..Len(msg[1].chat_id) :
          LET chat == msg[1].chat_id
              c == SubSeq(chat, 1, i - 1)
              d == SubSeq(chat, i + 1, Len(chat))
              stored == sessions[chat]
              n == Len(stored)
          IN  (chat[i] = ":" /\ ~Contains(c, ":"))
              => /\ Len(outbound) = 1
                 /\ outbound[1].channel = c
                 /\ outbound[1].chat_id = d
                 /\ turn.session_key = c \o <<":">> \o d
                 /\ n >= 2
                 /\ stored[n] = [role |-> "assistant", content |-> outbound[1].content]
                 /\ stored[n - 1] = [role |-> "user", content |-> StoredUserContent(msg[1])]
                 /\ \A j \in 1..(n - 2) :
                       turn.messages[j + 1].content = Some(stored[j].content)

C8_Witness ==
    /\ pc = "done"
    /\ IsSystem(msg[1])
    /\ msg[1].chat_id = <<"t", "g", ":", "4", ":", "2">>
    /\ Len(sessions[msg[1].chat_id]) = 4

\* the positions of the assistant turns added in this turn
ToolRequests ==
    {i \in 1..Len(turn.messages) :
        turn.messages[i].role = "assistant" /\ turn.messages[i].tool_calls # <<>>}

\* the tool-result turn of call k of the assistant turn at i, once dispatched
Dispatched(i, k) == i + k <= Len(turn.messages)
ResultOf(i, k) == turn.messages[i + k]

\* the turn has left the dispatch of the assistant turn at i
PastDispatchOf(i) == pc # "dispatching" \/ \E j \in ToolRequests : j > i

\* the tool-calling responses of the turn so far, and the latest of them
Requests == Cardinality(ToolRequests)
LastRequest == CHOOSE i \in ToolRequests : \A j \in ToolRequests : j <= i

\* the turn after the tool request at i: its calls are dispatched one after
\* the other; after the last of them the next model call is under way or
\* made, or the iteration cap has ended the turn; only the provider fails it
GoesOn(i) ==
    /\ pc = "failed" => error = Some("provider error")
    /\ i = LastRequest
       => IF Len(turn.messages) < i + Len(turn.messages[i].tool_calls)
          THEN /\ pc = "dispatching"
               /\ turn.next_call = Len(turn.messages) - i + 1
          ELSE \/ /\ pc = "calling"
                  /\ turn.iteration = Requests + 1
                  /\ turn.model_calls = Requests
               \/ /\ pc \in {"done", "failed"}
                  /\ turn.model_calls = Requests + 1
               \/ /\ pc = "done"
                  /\ Requests = MaxIterations
                  /\ turn.model_calls = MaxIterations

\* C9: a call to an unregistered tool yields a tool-result turn with that
\* call's id and an error string; no exception leaves the iteration and the
\* turn goes on to its next model call (while the cap allows one).
C9_UnknownToolYieldsErrorResult ==
    \A i \in ToolRequests :
       \A k \in 1..Len(turn.messages[i].tool_calls) :
          LET tool_call == turn.messages[i].tool_calls[k]
          IN  (tool_call.name \notin Registered /\ Dispatched(i, k))
              => /\ ResultOf(i, k).role = "tool"
                 /\ ResultOf(i, k).tool_call_id = tool_call.id
                 /\ ResultOf(i, k).name = tool_call.name
                 /\ ResultOf(i, k).content[1][1] = "Error: Tool '"
                 /\ GoesOn(i)

C9_Witness ==
    /\ pc = "calling"
    /\ turn.iteration = 2
    /\ \E i \in ToolRequests :
          /\ turn.messages[i].tool_calls[1].name \notin Registered
          /\ ResultOf(i, 1).content[1][1] = "Error: Tool '"

\* C10: a tool whose execution fails yields a tool-result turn for its call
\* id; the later calls of the same response are still dispatched, in order,
\* and the turn goes on to its next model call instead of being aborted.
C10_ToolFailureDoesNotAbort ==
    \A i \in ToolRequests :
       \A k \in 1..Len(turn.messages[i].tool_calls) :
          LET calls == turn.messages[i].tool_calls
          IN  (Dispatched(i, k) /\ ResultOf(i, k).content[1][1] = "Error executing ")
              => /\ ResultOf(i, k).role = "tool"
                 /\ ResultOf(i, k).tool_call_id = calls[k].id
                 /\ PastDispatchOf(i)
                    => \A j \in (k + 1)..Len(calls) :
                          /\ Dispatched(i, j)
                          /\ ResultOf(i, j).role = "tool"
                          /\ ResultOf(i, j).tool_call_id = calls[j].id
                 /\ GoesOn(i)

C10_Witness ==
    /\ pc = "calling"
    /\ \E i \in ToolRequests :
          /\ Len(turn.messages[i].tool_calls) = 2
          /\ ResultOf(i, 1).content[1][1] = "Error executing "
          /\ ResultOf(i, 2).tool_call_id = "call_2"

\* C11: for every inbound message taken, run() publishes at most one outbound
\* message: the turn's response or the error notice, never both.
C11_AtMostOneOutbound ==
    /\ Len(outbound) <= 1
    /\ pc \in {"calling", "dispatching"} => outbound = <<>>
    /\ pc = "failed"
       => outbound = <<OutboundMessage(msg[1].channel, msg[1].chat_id,
                                       ErrorNotice(error[1]))>>
    /\ pc \in {"done", "command"}
       => /\ Len(outbound) = 1
          /\ outbound[1].content[1] # "Sorry, I encountered an error: "

C11_Witness ==
    /\ pc = "failed"
    /\ turn.model_calls = 1
    /\ Len(outbound) = 1
    /\ prev # None

Commands == {CmdClear, CmdReset, CmdNew, CmdStatus, CmdHelp}

C13_FailedTurnDoesNotStopLoop ==
    /\ error # None
       => /\ pc = "failed"
          /\ outbound = <<OutboundMessage(msg[1].channel, msg[1].chat_id,
                                          ErrorNotice(error[1]))>>
    /\ (pc = "failed" /\ inbound # <<>>)
       => ENABLED (ConsumeCommand \/ ConsumeUser \/ ConsumeSystem)

\* a command answered right after a turn that failed in the budget's
\* construction
C13_Witness ==
    /\ max_spend_dollars = Some(10)
    /\ prev # None
    /\ ~IsSystem(prev[1])
    /\ ~IsCommand(prev[1])
    /\ pc = "command"

\* a user turn (no command) of a loop that was given a ceiling
UserTurnUnderCeiling ==
    /\ msg # None
    /\ ~IsSystem(msg[1])
    /\ ~IsCommand(msg[1])
    /\ pc \in {"calling", "dispatching", "done", "failed"}
    /\ max_spend_dollars # None

\* the model calls of the turn that have returned
CompletedCalls ==
    IF error = Some("provider error") THEN turn.model_calls - 1 ELSE turn.model_calls

\* C14: in a user turn with a budget, every completed model call is recorded
\* in the budget: after k calls the ledger holds k entries of source "agent"
\* with the calls' token usage, and spent_dollars is the sum of their costs.
C14_ModelCallsAreRecorded ==
    (UserTurnUnderCeiling /\ max_spend_dollars[1] > 0)
    => /\ budget # None
       /\ Len(budget[1].calls) = CompletedCalls
       /\ \A i \in 1..Len(budget[1].calls) :
             /\ budget[1].calls[i].source = <<"agent">>
             /\ <<budget[1].calls[i].input_tokens, budget[1].calls[i].output_tokens>>
                   \in {r.usage[1] : r \in Responses}
       /\ budget[1].spent_dollars = SumCost(budget[1].calls)

\* the budget of the turn: the attached one, else the one the ceiling stands for
TurnBudget == IF budget # None THEN budget[1] ELSE CeilingBudget

UserIndex ==
    CHOOSE i \in 1..Len(turn.messages) :
       /\ turn.messages[i].role = "user"
       /\ \A j \in (i + 1)..Len(turn.messages) : turn.messages[j].role # "user"
HistoryGiven == SubSeq(turn.messages, 2, UserIndex - 1)
ToolTurns == {i \in 1..Len(turn.messages) : turn.messages[i].role = "tool"}

\* the stored session of the turn before its two turns are added
StoredBefore ==
    IF pc = "done"
    THEN SubSeq(sessions[turn.session_key], 1, Len(sessions[turn.session_key]) - 2)
    ELSE sessions[turn.session_key]

\* C19: the turn's message sequence is the history, the new user turn, then
\* per tool-calling response one assistant turn followed at once by one
\* tool-result turn per call, in call order and with the call's id; the
\* calls are dispatched one after another in that order.
C19_ToolResultsFollowInOrder ==
    turn.messages # <<>>
    => LET ms == turn.messages
           history == get_history(StoredBefore)
           u == Len(history) + 2
       IN  /\ Len(ms) >= u
           /\ ms[1].role = "system"
           /\ \A j \in 1..Len(history) :
                 /\ ms[j + 1].role = history[j].role
                 /\ ms[j + 1].content = Some(history[j].content)
           /\ ms[u].role = "user"
           /\ ms[u].content = Some(msg[1].content)
           /\ \A i \in (u + 1)..Len(ms) :
                 IF ms[i].role = "assistant"
                 THEN LET calls == ms[i].tool_calls
                      IN  /\ calls # <<>>
                          /\ i = u + 1 \/ ms[i - 1].role = "tool"
                          /\ \A k \in 1..Len(calls) :
                                Dispatched(i, k)
                                => /\ ResultOf(i, k).role = "tool"
                                   /\ ResultOf(i, k).tool_call_id = calls[k].id
                                   /\ ResultOf(i, k).name = calls[k].name
                          /\ i + Len(calls) < Len(ms)
                             => ms[i + Len(calls) + 1].role = "assistant"
                          /\ i + Len(calls) > Len(ms)
                             => /\ pc = "dispatching"
                                /\ i = LastRequest
                                /\ turn.next_call = Len(ms) - i + 1
                                /\ turn.tool_calls = calls
                 ELSE /\ ms[i].role = "tool"
                      /\ \E j \in ToolRequests :
                            j < i /\ i - j <= Len(ms[j].tool_calls)
           /\ turn.tool_dispatches = Cardinality(ToolTurns)

C19_Witness ==
    /\ pc = "done"
    /\ Requests = 2
    /\ Cardinality(ToolTurns) = 4
    /\ UserIndex = 4

\* C20: a turn that reaches Done has added exactly two turns to its session,
\* the user turn and then the assistant turn with the outbound content, and
\* saved once; until the cycle has finished the session is neither added to
\* nor saved.
C20_DoneAddsTwoTurnsAndSaves ==
    turn.messages # <<>>
    => LET stored == sessions[turn.session_key]
           h == Len(HistoryGiven)
       IN  /\ \A j \in 1..h :
                 /\ stored[j].role = HistoryGiven[j].role
                 /\ Some(stored[j].content) = HistoryGiven[j].content
           /\ pc \in {"calling", "dispatching"}
              => Len(stored) = h /\ turn.saves = 0 /\ outbound = <<>>
           /\ pc = "done"
              => /\ Len(stored) = h + 2
                 /\ stored[h + 1] = [role |-> "user", content |-> StoredUserContent(msg[1])]
                 /\ stored[h + 2] = [role |-> "assistant", content |-> outbound[1].content]
                 /\ turn.saves = 1

C20_Witness ==
    /\ pc = "done"
    /\ ~IsSystem(msg[1])
    /\ turn.model_calls = 2
    /\ ~turn.all_tool_calls
    /\ Len(sessions[turn.session_key]) = 4
    /\ turn.saves = 1

---------------------------------------------------------------------------
(* Claims about the loop's construction, checked under SpecConstruct.      *)

\* C17: when the Honcho store's initialisation raises, construction still
\* succeeds on the local store with the flag cleared, no Honcho-only tool is
\* registered and no later turn attempts a pre-fetch; once the store is
\* selected the flag is set only if the store is the Honcho one.
C17_FallbackToLocalStore ==
    /\ (honcho_enabled /\ pc # "init_session_manager")
       => sessions_class = "HonchoSessionManager"
    /\ init_raised
       => /\ sessions_class = "SessionManager"
          /\ ~honcho_enabled
          /\ pc # "construction_failed"
          /\ error # Some("TypeError: unexpected keyword argument")
          /\ tools \cap RemoteOnlyTools = {}
          /\ pc # "register_default_tools" => tools = Registered
          /\ ~turn.prefetch_attempted
          /\ turn.user_context = None

\* a turn answered by a loop whose Honcho initialisation had raised
C17_Witness ==
    /\ init_raised
    /\ pc = "done"
    /\ turn.model_calls >= 1
    /\ ~turn.prefetch_attempted
    /\ ~honcho_enabled

---------------------------------------------------------------------------
(* Claims about the Honcho store, checked under SpecRemote.                *)

\* the turn ended with the content the cycle resolved, sent to the inbound's
\* own channel and chat_id
AnsweredNormally ==
    /\ pc = "done"
    /\ error = None
    /\ turn.model_calls >= 1
    /\ outbound = <<OutboundMessage(msg[1].channel, msg[1].chat_id,
                                    turn.final_content[1])>>
    /\ turn.final_content[1][1] # "Sorry, I encountered an error: "

\* C16: get_prefetch_context never raises and returns the empty mapping when
\* the session is not cached or the service's call fails; a turn whose
\* pre-fetch fails goes on with no user context, calls the model and gives
\* its normal outbound message.
C16_PrefetchFailureIsNoContext ==
    call # None
    => /\ call[1].op = "get_prefetch_context"
          => /\ ~call[1].raised
             /\ (call[1].outcome # "ok" \/ ~call[1].contacted)
                => call[1].value = EmptyMapping
       /\ (call[1].op = "turn" /\ call[1].prefetch_failed)
          => /\ turn.prefetch_attempted
             /\ turn.user_context \in {None, Some(EmptyMapping)}
             /\ AnsweredNormally

C16_Witness ==
    /\ call # None
    /\ call[1].op = "turn"
    /\ call[1].prefetch_failed
    /\ turn.user_context = Some(EmptyMapping)
    /\ pc = "done"

\* C18: a turn during which a call on the Honcho store errs (get_or_create,
\* save) still ends with its normal answer and no error notice.
C18_StoreErrorFallsBack ==
    (/\ call # None
     /\ call[1].op = "turn"
     /\ call[1].raised \/ call[1].save_failed)
    => AnsweredNormally

\* a failing send in save is absorbed: the turn gives its normal answer and
\* the new messages stay unsynced
C18_SaveFailureIsAbsorbed ==
    (/\ call # None
     /\ call[1].op = "turn"
     /\ call[1].save_failed)
    => /\ AnsweredNormally
       /\ \E i \in 1..Len(honcho_manager.cache[turn.session_key].messages) :
             ~honcho_manager.cache[turn.session_key].messages[i].synced

---------------------------------------------------------------------------
(* The stored user turn of an announce (Spec).                             *)

\* the user turn the finished turn stored: the one before the assistant turn
StoredUserTurn ==
    LET s == sessions[turn.session_key] IN s[Len(s) - 1]

SystemMarker == "[System: "

\* C21: when a turn is done, the user turn it stored is, for a system
\* announce, the marker "[System: <sender_id>] " followed by the announce's
\* content, and for a user message the message's content as it came, with
\* nothing added by the loop.
C21_AnnounceTurnIsTagged ==
    pc = "done" =>
        /\ StoredUserTurn.role = "user"
        /\ IF IsSystem(msg[1])
           THEN /\ StoredUserTurn.content[1] = SystemMarker
                /\ StoredUserTurn.content =
                       <<SystemMarker>> \o msg[1].sender_id \o <<"] ">> \o msg[1].content
                /\ StoredUserTurn.content # msg[1].content
           ELSE StoredUserTurn.content = msg[1].content

\* an announce was processed to the end and a user message after it
C21_Witness ==
    /\ pc = "done"
    /\ ~IsSystem(msg[1])
    /\ prev # None
    /\ IsSystem(prev[1])
    /\ Len(sessions[turn.session_key]) >= 4


---------------------------------------------------------------------------
(* run() with its run flag, and stop() (agent/loop.py).  After a turn the  *)
(* loop is back at the while test; pc = "idle" is the wait for the next    *)
(* inbound message, entered only after the test found the flag set.        *)

\* what is published inbound in the runs that may be stopped
RunInbound ==
    {InboundMessage(TG, <<"user">>, <<"4", ":", "2">>, <<"h", "i">>),
     InboundMessage(TG, <<"user">>, <<"4", ":", "2">>, CmdHelp),
     InboundMessage(SYSTEM, <<"subagent">>, <<"t", "g", ":", "4", ":", "2">>,
                    <<"d", "o", "n", "e">>)}
\* what the provider answers in them: a final answer, or one tool call
RunResponses ==
    {[content |-> Some(<<"answer">>), usage |-> Some(<<3, 1>>), tool_calls |-> <<>>],
     [content |-> None, usage |-> Some(<<3, 1>>),
      tool_calls |-> <<ToolCall("call_1", "read_file")>>]}

\* run() has set the flag, found it set, and waits for the first message
InitRun ==
    /\ budget = None
    /\ passed = <<>>
    /\ shared = <<>>
    /\ max_spend_dollars = None
    /\ honcho_enabled = FALSE
    /\ sessions_class = "SessionManager"
    /\ tools = Registered
    /\ init_raised = FALSE
    /\ NoRemote
    /\ Started
    /\ inbound = <<>>
    /\ arrived = 0
    /\ pc = "idle"
    /\ msg = None
    /\ prev = None
    /\ sessions = <<>>
    /\ turn = EmptyTurn
    /\ outbound = <<>>
    /\ error = None

\* stop(): the flag is cleared, whatever the loop is doing
Stop ==
    /\ running
    /\ running' = FALSE
    /\ UNCHANGED <<budget, passed, shared, max_spend_dollars, honcho_enabled, ctorVars,
                   remoteVars, subagents, spawn_origin, inbound, arrived, pc, msg, prev,
                   sessions, turn, outbound, error, sideVars>>

\* the mutant of WhileRunning: while True
WhileTrue(flag) == "idle"

\* while self._running: the wait is entered when the flag is set, run()
\* returns when it is not
WhileRunning(flag) == IF flag THEN "idle" ELSE "exited"

\* a turn has ended and its outbound message is published: back to the test
LoopTop ==
    /\ pc \in {"done", "failed", "command"}
    /\ pc' = WhileRunning(running)
    /\ UNCHANGED <<budget, passed, shared, max_spend_dollars, honcho_enabled, ctorVars,
                   remoteVars, taskVars, sideVars, inbound, arrived, msg, prev, sessions, turn,
                   outbound, error>>

\* the wait times out with no message: continue, back to the test
WaitTimeout ==
    /\ pc = "idle"
    /\ inbound = <<>>
    /\ pc' = WhileRunning(running)
    /\ UNCHANGED <<budget, passed, shared, max_spend_dollars, honcho_enabled, ctorVars,
                   remoteVars, taskVars, sideVars, inbound, arrived, msg, prev, sessions, turn,
                   outbound, error>>

\* the wait ends with a message: the turn is started
WaitEnds ==
    /\ pc = "idle"
    /\ (ConsumeCommand \/ ConsumeUser \/ ConsumeSystem)

\* the call the turn awaits ends, one way or another
AwaitedCallEnds ==
    \/ ProviderRaises
    \/ \E r \in RunResponses : ProviderReturns(r)
    \/ \E outcome \in ToolOutcomes : ToolReturns(outcome)

NextRun ==
    \/ \E m \in RunInbound : Arrive(m)
    \/ Stop
    \/ LoopTop
    \/ WaitTimeout
    \/ WaitEnds
    \/ AwaitedCallEnds

SpecRun == InitRun /\ [][NextRun]_vars

\* the scheduler runs the loop's task whenever it can go on, the wait ends
\* after its timeout at the latest, and awaited calls end
SpecRunFair ==
    /\ SpecRun
    /\ WF_vars(LoopTop)
    /\ WF_vars(WaitTimeout)
    /\ WF_vars(WaitEnds)
    /\ WF_vars(AwaitedCallEnds)

InFlight == pc \in {"calling", "dispatching"}

\* C22: once stop() has cleared the flag, run() eventually returns; a turn
\* in flight goes on to its end, where its one outbound message is
\* published; run() returns only from the while test (after a turn or a
\* timed-out wait) with the flag cleared; and once it has returned no
\* message is taken from the queue.
C22_StopEndsTheLoop ==
    /\ [](~running => <>(pc = "exited"))
    /\ [][InFlight => pc' \in {"calling", "dispatching", "done", "failed"}]_vars
    /\ [](pc \in {"done", "failed"} => Len(outbound) = 1)
    /\ [][pc' = "exited" /\ pc # "exited" =>
            /\ ~running
            /\ pc \in {"idle", "done", "failed", "command"}
            /\ UNCHANGED <<inbound, msg, outbound>>]_vars
    /\ [][pc = "exited" => pc' = "exited" /\ UNCHANGED <<msg, turn, outbound>>]_vars
    /\ [][msg' # msg => pc = "idle" /\ msg' = Some(Head(inbound))]_vars

\* stop() was called while a turn was in flight, the turn was finished and
\* published, and run() has returned with a message still queued
C22_Witness ==
    /\ pc = "exited"
    /\ ~running
    /\ msg # None
    /\ Len(outbound) = 1
    /\ inbound # <<>>


---------------------------------------------------------------------------
(* Subagents: the spawn tool (agent/tools/spawn.py) starts one through the *)
(* SubagentManager; it runs as a task of its own and, when it ends, puts   *)
(* one system message for its origin on the inbound queue.                 *)

\* what the transport has published when a run that spawns starts: one user
\* message, or two
SpawnInbound ==
    {<<InboundMessage(TG, <<"user">>, <<"4", ":", "2">>, <<"h", "i">>)>>,
     <<InboundMessage(TG, <<"user">>, <<"4", ":", "2">>, <<"h", "i">>),
       InboundMessage(TG, <<"user">>, <<"4", ":", "2">>, <<"h", "i">>)>>}
\* what the provider answers in them: a final answer, or a spawn call
SpawnResponses ==
    {[content |-> Some(<<"answer">>), usage |-> Some(<<3, 1>>), tool_calls |-> <<>>],
     [content |-> None, usage |-> Some(<<3, 1>>),
      tool_calls |-> <<ToolCall("call_1", "spawn")>>]}

\* how a subagent's own cycle ends; budget exhaustion needs a shared budget
SubagentEndings ==
    {"answer", "failure", "cap"} \cup (IF budget # None THEN {"budget"} ELSE {})

\* the content of the announce for each ending
AnnounceContent(ending) ==
    IF ending = "answer" THEN <<"subagent answer">>
    ELSE IF ending = "failure" THEN <<"subagent failure notice">>
    ELSE IF ending = "cap" THEN <<"subagent cap notice">>
    ELSE <<"subagent budget notice">>

\* the announce: a system message whose chat_id is "origin_channel:origin_chat_id"
Announce(sub, ending) ==
    InboundMessage(SYSTEM, <<"subagent">>,
                   sub.origin_channel \o <<":">> \o sub.origin_chat_id,
                   AnnounceContent(ending))

InitSpawn ==
    /\ budget = None
    /\ passed = <<>>
    /\ shared = <<>>
    /\ max_spend_dollars = None
    /\ honcho_enabled = FALSE
    /\ sessions_class = "SessionManager"
    /\ tools = Registered
    /\ init_raised = FALSE
    /\ NoRemote
    /\ Started
    /\ inbound \in SpawnInbound
    /\ arrived = Len(inbound)
    /\ pc = "idle"
    /\ msg = None
    /\ prev = None
    /\ sessions = <<>>
    /\ turn = EmptyTurn
    /\ outbound = <<>>
    /\ error = None

\* a running subagent ends and its announce is put on the inbound queue
SubagentEnds(i, ending) ==
    /\ i \in DOMAIN subagents
    /\ subagents[i].state = "running"
    /\ ending \in SubagentEndings
    /\ inbound' = Append(inbound, Announce(subagents[i], ending))
    /\ subagents' = [subagents EXCEPT
                       ![i].state = "announced",
                       ![i].ending = ending,
                       ![i].announced = Append(@, Announce(subagents[i], ending))]
    /\ UNCHANGED <<budget, passed, shared, max_spend_dollars, honcho_enabled, ctorVars,
                   remoteVars, running, spawn_origin, arrived, pc, msg, prev, sessions,
                   turn, outbound, error, sideVars>>

NextSpawn ==
    \/ ConsumeUser
    \/ ConsumeSystem
    \/ ProviderRaises
    \/ \E r \in SpawnResponses : ProviderReturns(r)
    \/ \E outcome \in ToolOutcomes : ToolReturns(outcome)
    \/ \E i \in 1..MaxSubagents, ending \in {"answer", "failure", "cap", "budget"} :
          SubagentEnds(i, ending)

SpecSpawn == InitSpawn /\ [][NextSpawn]_vars

\* every subagent's task is scheduled and its cycle ends (its iterations
\* are capped)
SpecSpawnFair ==
    /\ SpecSpawn
    /\ \A i \in 1..MaxSubagents :
          WF_vars(\E ending \in {"answer", "failure", "cap", "budget"} :
                     SubagentEnds(i, ending))

SomeSubagentRuns == \E i \in DOMAIN subagents : subagents[i].state = "running"

\* the step is the return of a spawn call
SpawnReturns == Len(subagents') = Len(subagents) + 1

\* C23: when a spawn call returns, the subagent it started is still running
\* and has announced nothing, the turn holds the acknowledgement as the
\* call's result and goes on; and while a subagent runs the loop is never
\* held up: an awaited model or tool call can return, and a queued message
\* can be taken after the turn has ended.
C23_SpawnDoesNotWait ==
    /\ [][SpawnReturns =>
            /\ subagents'[Len(subagents')].state = "running"
            /\ subagents'[Len(subagents')].announced = <<>>
            /\ inbound' = inbound
            /\ pc' \in {"calling", "dispatching", "done"}
            /\ \E k \in 1..Len(turn'.messages) :
                  /\ turn'.messages[k].role = "tool"
                  /\ turn'.messages[k].content = Some(SpawnAck)]_vars
    /\ [](SomeSubagentRuns =>
            /\ pc = "calling" => ENABLED (\E r \in SpawnResponses : ProviderReturns(r))
            /\ pc = "dispatching" =>
                  ENABLED (\E outcome \in ToolOutcomes : ToolReturns(outcome))
            /\ Between /\ inbound # <<>> => ENABLED (ConsumeUser \/ ConsumeSystem))

\* the spawning turn is done, the loop has taken the next user message and
\* finished its turn, and the subagent is still running
C23_Witness ==
    /\ pc = "done"
    /\ prev # None
    /\ ~IsSystem(msg[1])
    /\ subagents # <<>>
    /\ subagents[1].state = "running"
    /\ subagents[1].spawned_in.channel = TG
    /\ Len(sessions[turn.session_key]) = 4

---------------------------------------------------------------------------
(* The order in which run() takes and answers messages (Spec).             *)

\* the step takes a message from the inbound queue
Takes == Len(inbound') < Len(inbound)

\* C25: a message is taken from the queue only while no turn is in flight
\* and after the message before it has had its one outbound message (its
\* answer or the error notice) published; the message taken is the oldest
\* one queued, a subagent's announce like any other, and the queue keeps
\* arrival order: a new message goes to its end.
C25_OneAtATimeInArrivalOrder ==
    /\ [][Takes =>
            /\ Between
            /\ msg # None => Len(outbound) = 1
            /\ msg' = Some(Head(inbound))
            /\ inbound' = Tail(inbound)
            /\ prev' = msg]_vars
    /\ [][Len(inbound') > Len(inbound) =>
            /\ Len(inbound') = Len(inbound) + 1
            /\ SubSeq(inbound', 1, Len(inbound)) = inbound]_vars
    /\ [][~Between /\ ~Between' => UNCHANGED msg]_vars

\* an announce that arrived after a user message is in its turn, the user
\* message's turn having been answered before
C25_Witness ==
    /\ pc = "calling"
    /\ prev # None
    /\ ~IsSystem(prev[1])
    /\ IsSystem(msg[1])
    /\ inbound = <<>>
    /\ Len(sessions[turn.session_key]) >= 2


---------------------------------------------------------------------------
(* Budgets of announce turns and of successive user turns (Spec).          *)

\* the turn of a system message in a loop that was given a ceiling
SystemTurnUnderCeiling ==
    /\ msg # None
    /\ IsSystem(msg[1])
    /\ pc \in {"calling", "dispatching", "done", "failed"}
    /\ Truthy(max_spend_dollars)

\* C26: the turn of a system message in a loop with a ceiling has a budget
\* like a user turn: every completed model call of the turn is recorded in
\* it, and no model call or tool dispatch is under way once it is exhausted.
C26_AnnounceTurnsAreBudgeted ==
    SystemTurnUnderCeiling
    => /\ budget # None
       /\ Len(budget[1].calls) = CompletedCalls
       /\ is_exhausted(budget[1]) => pc \notin {"calling", "dispatching"}

\* C27: a user turn (no command) in a loop with a ceiling starts with a
\* budget of its own: before the turn's first model call the budget attached
\* is a new one of the configured ceiling, with nothing spent and an empty
\* ledger, and the turn has not failed over creating it.
C27_EachUserTurnGetsAFreshBudget ==
    (UserTurnUnderCeiling /\ turn.model_calls = 0)
    => /\ budget = Some(NewBudget(max_spend_dollars[1]))
       /\ budget[1].spent_dollars = 0
       /\ budget[1].calls = <<>>
       /\ pc # "failed"


---------------------------------------------------------------------------
(* HonchoSessionManager used on its own: get_or_create, add_message on the *)
(* session got, save and delete, in any order, the service failing or not. *)

\* add_message calls made on the sessions of one manager
MaxStoreMessages == 2
\* HonchoSession objects one manager creates
MaxSessionObjects == 2

StoreKeys == {TG \o <<":", "4", ":", "2">>, CLI \o <<":", "7">>}

StoredMessage(peer_id, content, created_at) ==
    [peer_id |-> peer_id, content |-> content, created_at |-> created_at]

\* what the service may hold for the first key when the manager starts:
\* nothing; messages in order; out of order; out of order with one that has
\* no created_at
StoreBackends ==
    LET id == SanitizeId(TG \o <<":", "4", ":", "2">>)
        u == UserPeerId(TG \o <<":", "4", ":", "2">>)
        a == AssistantPeerId
    IN  {<<>>,
         id :> <<StoredMessage(u, <<"b1">>, Some(1)), StoredMessage(a, <<"b2">>, Some(2))>>,
         id :> <<StoredMessage(a, <<"b2">>, Some(2)), StoredMessage(u, <<"b1">>, Some(1)),
                 StoredMessage(u, <<"b3">>, Some(3))>>,
         id :> <<StoredMessage(u, <<"b1">>, Some(2)), StoredMessage(a, <<"b2">>, None),
                 StoredMessage(u, <<"b3">>, Some(1))>>}

InitStore ==
    /\ budget = None
    /\ passed = <<>>
    /\ shared = <<>>
    /\ max_spend_dollars = None
    /\ honcho_enabled = TRUE
    /\ sessions_class = "HonchoSessionManager"
    /\ tools = Registered
    /\ init_raised = FALSE
    /\ honcho_manager = EmptyManager
    /\ backend \in StoreBackends
    /\ call = None
    /\ running = FALSE
    /\ subagents = <<>>
    /\ spawn_origin = DefaultOrigin
    /\ NoSide
    /\ inbound = <<>>
    /\ arrived = 0
    /\ pc = "idle"
    /\ msg = None
    /\ prev = None
    /\ sessions = <<>>
    /\ turn = EmptyTurn
    /\ outbound = <<>>
    /\ error = None

\* the record of a call on the manager
CallRecord(op, key) ==
    [op |-> op, key |-> key, raised |-> FALSE,
     contacted |-> FALSE, returned |-> <<>>, loaded |-> <<>>, found |-> None,
     sent |-> <<>>, accepted |-> FALSE, after_failure |-> FALSE,
     deleted |-> FALSE]

\* the last call was a save of the key whose add_messages call raised
SaveJustFailed(key) ==
    /\ call # None
    /\ call[1].op = "save"
    /\ call[1].key = key
    /\ call[1].sent # <<>>
    /\ ~call[1].accepted

\* get_or_create(key) is called
StoreGetOrCreate(key, outcome) ==
    /\ key \notin DOMAIN honcho_manager.cache =>
          honcho_manager.created < MaxSessionObjects
    /\ LET g == honcho_get_or_create(honcho_manager, backend, key, outcome)
       IN  /\ honcho_manager' = g.manager
           /\ call' = Some([CallRecord("get_or_create", key) EXCEPT
                              !.raised = g.raised,
                              !.contacted = g.contacted,
                              !.returned = g.returned,
                              !.loaded = g.loaded,
                              !.found = IF g.raised THEN None
                                        ELSE Some(g.manager.cache[key])])
    /\ UNCHANGED <<budget, passed, shared, max_spend_dollars, honcho_enabled, ctorVars,
                   taskVars, sideVars, backend, inbound, arrived, pc, msg, prev, sessions, turn,
                   outbound, error>>

\* the role of the n-th message added: a user message, then the assistant's
\* reply, and so on, as _process_message adds them
RoleOf(n) == IF n % 2 = 1 THEN "user" ELSE "assistant"

\* add_message is called on the session got for the key; the content of the
\* n-th message added is "m" n
StoreAddMessage(key) ==
    /\ key \in DOMAIN honcho_manager.cache
    /\ honcho_manager.added < MaxStoreMessages
    /\ honcho_manager' =
          [honcho_manager EXCEPT
             !.cache[key] = honcho_add_message(@, RoleOf(honcho_manager.added + 1),
                                               <<"m", ToString(honcho_manager.added + 1)>>),
             !.added = @ + 1]
    /\ call' = Some(CallRecord("add_message", key))
    /\ UNCHANGED <<budget, passed, shared, max_spend_dollars, honcho_enabled, ctorVars,
                   taskVars, sideVars, backend, inbound, arrived, pc, msg, prev, sessions, turn,
                   outbound, error>>

\* save is called with the session got for the key
StoreSave(key, outcome) ==
    /\ key \in DOMAIN honcho_manager.cache
    /\ LET sv == honcho_save(honcho_manager, backend, key,
                             honcho_manager.cache[key], outcome)
       IN  /\ honcho_manager' = sv.manager
           /\ backend' = sv.service
           /\ call' = Some([CallRecord("save", key) EXCEPT
                              !.raised = sv.raised,
                              !.sent = sv.sent,
                              !.accepted = sv.accepted,
                              !.after_failure = SaveJustFailed(key)])
    /\ UNCHANGED <<budget, passed, shared, max_spend_dollars, honcho_enabled, ctorVars,
                   taskVars, sideVars, inbound, arrived, pc, msg, prev, sessions, turn, outbound,
                   error>>

\* HonchoSessionManager.delete: a cached session leaves the cache and True
\* is returned, else False; the Honcho session stays cached and the service
\* keeps its messages
StoreDelete(key) ==
    /\ honcho_manager' =
          [honcho_manager EXCEPT
             !.cache = [k \in DOMAIN @ \ {key} |-> @[k]]]
    /\ call' = Some([CallRecord("delete", key) EXCEPT
                       !.deleted = key \in DOMAIN honcho_manager.cache])
    /\ UNCHANGED <<budget, passed, shared, max_spend_dollars, honcho_enabled, ctorVars,
                   taskVars, sideVars, backend, inbound, arrived, pc, msg, prev, sessions, turn,
                   outbound, error>>

NextStore ==
    \/ \E key \in StoreKeys, outcome \in BackendOutcomes : StoreGetOrCreate(key, outcome)
    \/ \E key \in StoreKeys : StoreAddMessage(key)
    \/ \E key \in StoreKeys, outcome \in CallOutcomes : StoreSave(key, outcome)
    \/ \E key \in StoreKeys : StoreDelete(key)

SpecStore == InitStore /\ [][NextStore]_vars

\* what the service holds for a session id
StoredFor(be, id) == IF id \in DOMAIN be THEN be[id] ELSE <<>>

Contents(messages) == [i \in 1..Len(messages) |-> messages[i].content]

\* how often the service holds a message of this content in the session
TimesAccepted(id, content) ==
    Cardinality({i \in 1..Len(StoredFor(backend, id)) :
                   StoredFor(backend, id)[i].content = content})

Unsynced(session) == SelectSeq(session.messages, LAMBDA m : ~m.synced)

\* C28: a message of a session is marked synced exactly when the service
\* holds it, and then holds it once; a save passes to the service the
\* messages not marked, in their stored order, and nothing else; when the
\* service accepts them it holds them after what it held and every message
\* of the session is marked; when the send raises the service holds what it
\* held and the marks are as before, so the next save sends them again.
C28_SaveSendsEachMessageOnce ==
    /\ [](\A key \in DOMAIN honcho_manager.cache :
            \A i \in 1..Len(honcho_manager.cache[key].messages) :
               LET m == honcho_manager.cache[key].messages[i]
                   n == TimesAccepted(honcho_manager.cache[key].honcho_session_id,
                                      m.content)
               IN  IF m.synced THEN n = 1 ELSE n = 0)
    /\ [][\A key \in StoreKeys, outcome \in CallOutcomes :
            StoreSave(key, outcome) =>
               LET before == honcho_manager.cache[key]
                   after == honcho_manager'.cache[key]
                   id == before.honcho_session_id
               IN  /\ Contents(call'[1].sent) = Contents(Unsynced(before))
                   /\ IF outcome = "ok"
                      THEN /\ \A i \in 1..Len(after.messages) : after.messages[i].synced
                           /\ Contents(StoredFor(backend', id)) =
                                 Contents(StoredFor(backend, id))
                                 \o Contents(Unsynced(before))
                      ELSE /\ backend' = backend
                           /\ after.messages = before.messages
                   /\ Contents(after.messages) = Contents(before.messages)]_vars

\* a save whose send raised was followed by a save that the service
\* accepted, with a message added before each
C28_Witness ==
    /\ call # None
    /\ call[1].op = "save"
    /\ call[1].accepted
    /\ call[1].after_failure
    /\ Len(call[1].sent) >= 1
    /\ \E i \in 1..Len(honcho_manager.cache[call[1].key].messages) :
          honcho_manager.cache[call[1].key].messages[i].timestamp # None

\* the call was a get_or_create that loaded the session from the service
Loaded ==
    /\ call # None
    /\ call[1].op = "get_or_create"
    /\ ~call[1].raised
    /\ call[1].contacted

\* C29: the messages a load puts in the session are those the service
\* returned, each once and with its role and content, and their created_at
\* values are in non-decreasing order.
C29_LoadKeepsEveryMessageInOrder ==
    Loaded =>
       LET returned == call[1].returned
           loaded == call[1].loaded
           local == honcho_manager.cache[call[1].key].messages
           stamps == Timestamps(loaded)
       IN  /\ Len(loaded) = Len(returned)
           /\ \A i \in 1..Len(returned) :
                 Cardinality({j \in 1..Len(loaded) : loaded[j] = returned[i]})
                 = Cardinality({j \in 1..Len(returned) : returned[j] = returned[i]})
           /\ \A i \in 1..(Len(stamps) - 1) : stamps[i] <= stamps[i + 1]
           /\ Len(local) = Len(loaded)
           /\ \A i \in 1..Len(loaded) :
                 /\ local[i].content = loaded[i].content
                 /\ local[i].role = IF loaded[i].peer_id = AssistantPeerId
                                    THEN "assistant" ELSE "user"
                 /\ local[i].synced

\* a load whose messages came out of order, one of them without created_at,
\* and were put in order
C29_Witness ==
    /\ Loaded
    /\ call[1].loaded # call[1].returned
    /\ \E i \in 1..Len(call[1].returned) : call[1].returned[i].created_at = None

\* C30: get_or_create of a key whose session is in the cache returns that
\* session, the same object with the messages added to it, and changes
\* nothing and contacts nothing; for a key that is not in the cache a call
\* that does not raise puts a new session object in the cache; two keys
\* never have the same session object.
C30_GetOrCreateReturnsTheSameSession ==
    /\ [][\A key \in StoreKeys, outcome \in BackendOutcomes :
            StoreGetOrCreate(key, outcome) =>
               IF key \in DOMAIN honcho_manager.cache
               THEN /\ honcho_manager' = honcho_manager
                    /\ backend' = backend
                    /\ ~call'[1].raised
                    /\ ~call'[1].contacted
                    /\ call'[1].found = Some(honcho_manager.cache[key])
               ELSE ~call'[1].raised =>
                       /\ key \in DOMAIN honcho_manager'.cache
                       /\ call'[1].found = Some(honcho_manager'.cache[key])
                       /\ \A k \in DOMAIN honcho_manager.cache :
                             honcho_manager'.cache[key].oid # honcho_manager.cache[k].oid]_vars
    /\ [](\A k1, k2 \in DOMAIN honcho_manager.cache :
            k1 # k2 => honcho_manager.cache[k1].oid # honcho_manager.cache[k2].oid)

\* with two sessions cached, get_or_create returned the one that holds a
\* message added after it was created and not yet sent
C30_Witness ==
    /\ call # None
    /\ call[1].op = "get_or_create"
    /\ ~call[1].contacted
    /\ ~call[1].raised
    /\ Cardinality(DOMAIN honcho_manager.cache) = 2
    /\ \E i \in 1..Len(call[1].found[1].messages) : ~call[1].found[1].messages[i].synced


---------------------------------------------------------------------------
(* The user-context query tool in the turns of a loop on the Honcho store. *)
(* AgentLoop's own constructor ends with a TypeError on this store         *)
(* (RegisterDefaultTools); the loop here is the one _register_default_tools *)
(* is written to build: HonchoTool constructed with the parameter it takes *)
(* and registered under its name.  The store's content is not involved.    *)

QueryInbound ==
    {InboundMessage(TG, <<"user">>, <<"4", ":", "2">>, <<"h", "i">>),
     InboundMessage(CLI, <<"user">>, <<"7">>, <<"h", "i">>),
     InboundMessage(SYSTEM, <<"subagent">>, <<"t", "g", ":", "4", ":", "2">>,
                    <<"d", "o", "n", "e">>)}

\* the model asks the query tool, or answers
QueryResponses ==
    {[content |-> None, usage |-> Some(<<3, 1>>),
      tool_calls |-> <<ToolCall("call_1", HonchoToolName)>>],
     [content |-> Some(<<"answer">>), usage |-> Some(<<3, 1>>), tool_calls |-> <<>>]}

InitQuery ==
    /\ budget = None
    /\ passed = <<>>
    /\ shared = <<>>
    /\ max_spend_dollars = None
    /\ honcho_enabled = TRUE
    /\ sessions_class = "HonchoSessionManager"
    /\ tools = Registered \cup RemoteOnlyTools
    /\ init_raised = FALSE
    /\ NoRemote
    /\ Started
    /\ inbound = <<>>
    /\ arrived = 0
    /\ pc = "idle"
    /\ msg = None
    /\ prev = None
    /\ sessions \in StoredSessions
    /\ turn = EmptyTurn
    /\ outbound = <<>>
    /\ error = None

NextQuery ==
    \/ \E m \in QueryInbound : Arrive(m)
    \/ ConsumeUser
    \/ ConsumeSystem
    \/ ProviderRaises
    \/ \E r \in QueryResponses : ProviderReturns(r)
    \/ \E outcome \in ToolOutcomes : ToolReturns(outcome)

SpecQuery == InitQuery /\ [][NextQuery]_vars

\* the results the query tool gave in the turn
QueryResults ==
    {turn.messages[i].content[1] :
        i \in {j \in 1..Len(turn.messages) :
                 /\ turn.messages[j].role = "tool"
                 /\ turn.messages[j].name = HonchoToolName}}

\* C31: on the Honcho store, whenever a turn calls the model the query
\* tool's context is the turn's session key, and no call of the query tool
\* in the turn returns the no-user-context error.
C31_QueryToolHasTurnContext ==
    (honcho_enabled /\ pc \in {"calling", "dispatching", "done"} /\ turn.model_calls >= 1)
    => /\ honcho_context = Some(turn.session_key)
       /\ NoUserContextError \notin QueryResults


---------------------------------------------------------------------------
(* chunk_message (utils/chunking.py).  A content is a sequence of          *)
(* characters; positions are counted from 0 as in the code, and            *)
(* content[a:b] is Slice(content, a, b).                                   *)

\* the parts a content is put together from
MaxParts == 5

Slice(content, a, b) == SubSeq(content, a + 1, b)

\* str.rfind: the highest position where sub starts in chunk, or -1
RFind(chunk, sub) ==
    LET hits == {i \in 0..(Len(chunk) - Len(sub)) : Slice(chunk, i, i + Len(sub)) = sub}
    IN  IF hits = {} THEN -1 ELSE CHOOSE i \in hits : \A j \in hits : j <= i

\* the backquote character, and the fence of a code block: three of them
Backquote == "backquote"
Fence == <<Backquote, Backquote, Backquote>>

\* the first position, from the given one on, where a fence starts, or -1
FindFence(content, from) ==
    LET hits == {i \in from..(Len(content) - 3) : Slice(content, i, i + 3) = Fence}
    IN  IF hits = {} THEN -1 ELSE CHOOSE i \in hits : \A j \in hits : i <= j

\* CODE_BLOCK_PATTERN.finditer: the matches of the pattern from left to
\* right, without overlap, each from a fence to the end of the next fence
RECURSIVE CodeBlocksFrom(_, _)
CodeBlocksFrom(content, from) ==
    LET start == FindFence(content, from)
        close == IF start = -1 THEN -1 ELSE FindFence(content, start + 3)
    IN  IF close = -1 THEN <<>>
        ELSE <<[start |-> start, end |-> close + 3]>>
             \o CodeBlocksFrom(content, close + 3)

\* the first code block with start < end_pos <= end, or None
InCodeBlock(code_blocks, end_pos) ==
    LET hits == {i \in DOMAIN code_blocks :
                   code_blocks[i].start < end_pos /\ end_pos <= code_blocks[i].end}
    IN  IF hits = {} THEN None
        ELSE Some(code_blocks[CHOOSE i \in hits : \A j \in hits : i <= j])

\* the mutant of EndPos: a code block that starts the chunk is taken whole,
\* whether it fits or not
EndPosWholeBlock(content, max_length, code_blocks, current_pos) ==
    LET end_pos == current_pos + max_length
        in_code_block == InCodeBlock(code_blocks, end_pos)
        chunk == Slice(content, current_pos, end_pos)
        para_break == RFind(chunk, <<"\n", "\n">>)
        newline == RFind(chunk, <<"\n">>)
        space == RFind(chunk, <<" ">>)
    IN  IF in_code_block # None
        THEN IF in_code_block[1].start > current_pos THEN in_code_block[1].start
             ELSE in_code_block[1].end
        ELSE IF para_break > max_length \div 2 THEN current_pos + para_break + 2
        ELSE IF newline > max_length \div 2 THEN current_pos + newline + 1
        ELSE IF space > max_length \div 2 THEN current_pos + space + 1
        ELSE end_pos

\* where the chunk that starts at current_pos ends, when the content goes
\* on past current_pos + max_length: before a code block the cut would
\* fall in, after it when it starts the chunk and fits, at a newline of a
\* code block that does not fit; outside code blocks after the last
\* paragraph break, newline or space in the second half of the chunk
EndPos(content, max_length, code_blocks, current_pos) ==
    LET end_pos == current_pos + max_length
        in_code_block == InCodeBlock(code_blocks, end_pos)
        chunk == Slice(content, current_pos, end_pos)
        para_break == RFind(chunk, <<"\n", "\n">>)
        newline == RFind(chunk, <<"\n">>)
        space == RFind(chunk, <<" ">>)
    IN  IF in_code_block # None
        THEN IF in_code_block[1].start > current_pos THEN in_code_block[1].start
             ELSE IF in_code_block[1].end - current_pos <= max_length
             THEN in_code_block[1].end
             ELSE IF newline > max_length \div 2 THEN current_pos + newline + 1
             ELSE end_pos
        ELSE IF para_break > max_length \div 2 THEN current_pos + para_break + 2
        ELSE IF newline > max_length \div 2 THEN current_pos + newline + 1
        ELSE IF space > max_length \div 2 THEN current_pos + space + 1
        ELSE end_pos

\* the while loop of chunk_message; steps is the number of iterations it is
\* followed for, and finished tells whether it ended within them
RECURSIVE ChunkLoop(_, _, _, _, _)
ChunkLoop(content, max_length, code_blocks, current_pos, steps) ==
    IF ~(current_pos < Len(content))
    THEN [chunks |-> <<>>, finished |-> TRUE]
    ELSE IF steps = 0
    THEN [chunks |-> <<>>, finished |-> FALSE]
    ELSE IF current_pos + max_length >= Len(content)
    THEN [chunks |-> <<Slice(content, current_pos, Len(content))>>, finished |-> TRUE]
    ELSE LET end_pos == EndPos(content, max_length, code_blocks, current_pos)
             rest == ChunkLoop(content, max_length, code_blocks, end_pos, steps - 1)
         IN  [chunks |-> <<Slice(content, current_pos, end_pos)>> \o rest.chunks,
              finished |-> rest.finished]

\* chunk_message: the content itself when it fits, else the loop's chunks
chunk_message(content, max_length) ==
    IF Len(content) <= max_length
    THEN [chunks |-> <<content>>, finished |-> TRUE]
    ELSE ChunkLoop(content, max_length, CodeBlocksFrom(content, 0), 0, Len(content) + 1)

ContentParts == {<<"a", "a", "a">>, <<"\n">>, <<" ">>, Fence}

\* the contents of at most n parts
RECURSIVE ContentsOf(_)
ContentsOf(n) ==
    IF n = 0 THEN {<<>>}
    ELSE LET shorter == ContentsOf(n - 1)
         IN  shorter \cup {c \o p : c \in shorter, p \in ContentParts}

\* a caller is about to chunk a content with some max_length >= 1, up to
\* one more than the content's length
InitChunk ==
    /\ budget = None
    /\ passed = <<>>
    /\ shared = <<>>
    /\ running = FALSE
    /\ subagents = <<>>
    /\ spawn_origin = DefaultOrigin
    /\ honcho_context = None
    /\ direct = NoDirect
    /\ sessions_class = "None"
    /\ tools = {}
    /\ init_raised = FALSE
    /\ NoRemote
    /\ max_spend_dollars = None
    /\ honcho_enabled = FALSE
    /\ inbound = <<>>
    /\ arrived = 0
    /\ pc = "idle"
    /\ msg = None
    /\ prev = None
    /\ sessions = <<>>
    /\ turn = EmptyTurn
    /\ outbound = <<>>
    /\ error = None
    /\ \E content \in ContentsOf(MaxParts) :
          \E max_length \in 1..(Len(content) + 1) :
             chunked = Some([content |-> content, max_length |-> max_length,
                             called |-> FALSE, chunks |-> <<>>, finished |-> FALSE])

\* the caller runs the generator to its end
ChunkMessage ==
    /\ chunked # None
    /\ ~chunked[1].called
    /\ LET r == chunk_message(chunked[1].content, chunked[1].max_length)
       IN  chunked' = Some([chunked[1] EXCEPT !.called = TRUE,
                                              !.chunks = r.chunks,
                                              !.finished = r.finished])
    /\ UNCHANGED <<budget, passed, shared, max_spend_dollars, honcho_enabled, ctorVars,
                   remoteVars, taskVars, honcho_context, direct, inbound, arrived, pc,
                   msg, prev, sessions, turn, outbound, error>>

NextChunk == ChunkMessage

SpecChunk == InitChunk /\ [][NextChunk]_vars

\* the chunks put together again
RECURSIVE Concat(_)
Concat(chunks) == IF chunks = <<>> THEN <<>> ELSE Head(chunks) \o Concat(Tail(chunks))

\* the positions of the content where one chunk ends and the next begins
Boundaries(chunks) ==
    {Len(Concat(SubSeq(chunks, 1, i))) : i \in 1..(Len(chunks) - 1)}

Chunked == chunked # None /\ chunked[1].called

\* C32: no boundary between two chunks lies strictly inside a code block
\* that is at most max_length long.
C32_NoSplitInsideCodeBlock ==
    Chunked =>
       LET code_blocks == CodeBlocksFrom(chunked[1].content, 0)
       IN  \A i \in DOMAIN code_blocks :
              code_blocks[i].end - code_blocks[i].start <= chunked[1].max_length
              => \A b \in Boundaries(chunked[1].chunks) :
                    ~(code_blocks[i].start < b /\ b < code_blocks[i].end)

\* C38 as stated: the call ends, every chunk is non-empty and at most
\* max_length long, and the chunks in order make up the content.
C38_AsStated ==
    Chunked =>
       /\ chunked[1].finished
       /\ \A i \in DOMAIN chunked[1].chunks :
             /\ Len(chunked[1].chunks[i]) >= 1
             /\ Len(chunked[1].chunks[i]) <= chunked[1].max_length
       /\ Concat(chunked[1].chunks) = chunked[1].content

\* C38: the call ends, every chunk is at most max_length long and, unless
\* the content is empty, non-empty (the empty content gives the one empty
\* chunk), and the chunks in order make up the content.
C38_ChunksMakeUpTheContent ==
    Chunked =>
       /\ chunked[1].finished
       /\ \A i \in DOMAIN chunked[1].chunks :
             /\ Len(chunked[1].chunks[i]) >= 1 \/ chunked[1].content = <<>>
             /\ Len(chunked[1].chunks[i]) <= chunked[1].max_length
       /\ Len(chunked[1].chunks) >= 1
       /\ Concat(chunked[1].chunks) = chunked[1].content

\* a content with a code block was cut into three chunks or more, one of
\* them ending where the code block starts
C38_Witness ==
    /\ Chunked
    /\ Len(chunked[1].chunks) >= 3
    /\ \E i \in DOMAIN CodeBlocksFrom(chunked[1].content, 0) :
          /\ CodeBlocksFrom(chunked[1].content, 0)[i].start \in Boundaries(chunked[1].chunks)
          /\ CodeBlocksFrom(chunked[1].content, 0)[i].start > 0


---------------------------------------------------------------------------
(* A turn started through process_direct while run() processes its own.    *)
(* Both go through _process_message on the same loop, tools and sessions;  *)
(* each is suspended while it awaits the model, and the other may run.     *)

\* the message process_direct builds from its default arguments
DirectMessage == InboundMessage(CLI, <<"user">>, <<"direct">>, <<"h", "i">>)

\* process_direct is called: _process_message runs up to its first await,
\* the model call; it gets the session and sets the tools' contexts
DirectStart ==
    /\ direct.pc = "none"
    /\ sessions' = get_or_create(sessions, session_key(DirectMessage))
    /\ spawn_origin' = set_context(DirectMessage.channel, DirectMessage.chat_id)
    /\ honcho_context' =
          UpdateHonchoContext(tools, honcho_context, session_key(DirectMessage))
    /\ direct' = [NoDirect EXCEPT !.pc = "calling",
                                  !.channel = DirectMessage.channel,
                                  !.chat_id = DirectMessage.chat_id,
                                  !.content = DirectMessage.content]
    /\ UNCHANGED <<budget, passed, shared, max_spend_dollars, honcho_enabled, ctorVars,
                   remoteVars, running, subagents, chunked, inbound, arrived, pc, msg,
                   prev, turn, outbound, error>>

\* the model answers the direct turn: both turns are added to its session,
\* the session is saved and process_direct returns the content
DirectProviderReturns(r) ==
    /\ direct.pc = "calling"
    /\ r.tool_calls = <<>>
    /\ LET key == session_key(DirectMessage)
           content == IF r.content = None THEN NoResponseText ELSE r.content[1]
       IN  /\ sessions' = add_message(add_message(sessions, key, "user", direct.content),
                                      key, "assistant", content)
           /\ direct' = [direct EXCEPT !.pc = "returned", !.response = Some(content)]
    /\ UNCHANGED <<budget, passed, shared, max_spend_dollars, honcho_enabled, ctorVars,
                   remoteVars, taskVars, honcho_context, chunked, inbound, arrived, pc,
                   msg, prev, turn, outbound, error>>

\* the model call of the direct turn raises: the exception leaves
\* process_direct
DirectProviderRaises ==
    /\ direct.pc = "calling"
    /\ direct' = [direct EXCEPT !.pc = "raised"]
    /\ UNCHANGED <<budget, passed, shared, max_spend_dollars, honcho_enabled, ctorVars,
                   remoteVars, taskVars, honcho_context, chunked, inbound, arrived, pc,
                   msg, prev, sessions, turn, outbound, error>>

NextDirect ==
    \/ ConsumeUser
    \/ ProviderRaises
    \/ \E r \in SpawnResponses : ProviderReturns(r)
    \/ \E outcome \in ToolOutcomes : ToolReturns(outcome)
    \/ DirectStart
    \/ \E r \in Answers : DirectProviderReturns(r)
    \/ DirectProviderRaises

SpecDirect == InitSpawn /\ [][NextDirect]_vars

\* C33: every subagent carries as its origin the channel and chat_id of the
\* turn whose spawn call started it, whatever else ran in between.
C33_SpawnCarriesItsTurnsOrigin ==
    \A i \in DOMAIN subagents :
       /\ subagents[i].origin_channel = subagents[i].spawned_in.channel
       /\ subagents[i].origin_chat_id = subagents[i].spawned_in.chat_id


\* C34: delete(key) takes the key's session out of the cache and nothing
\* else, and returns true exactly when the key was cached; a get_or_create
\* of the key after it, with the service answering, returns a session that
\* holds every message the service holds for the key.
C34_DeleteKeepsTheBackendHistory ==
    /\ [][\A key \in StoreKeys :
            StoreDelete(key) =>
               /\ call'[1].deleted = (key \in DOMAIN honcho_manager.cache)
               /\ DOMAIN honcho_manager'.cache = DOMAIN honcho_manager.cache \ {key}
               /\ \A k \in DOMAIN honcho_manager'.cache :
                     honcho_manager'.cache[k] = honcho_manager.cache[k]
               /\ honcho_manager'.sessions_cache = honcho_manager.sessions_cache
               /\ backend' = backend]_vars
    /\ [][\A key \in StoreKeys :
            (/\ call # None
             /\ call[1].op = "delete"
             /\ call[1].key = key
             /\ call[1].deleted
             /\ StoreGetOrCreate(key, "ok")) =>
               \A i \in 1..Len(StoredFor(backend, SanitizeId(key))) :
                  \E j \in 1..Len(honcho_manager'.cache[key].messages) :
                     honcho_manager'.cache[key].messages[j].content
                     = StoredFor(backend, SanitizeId(key))[i].content]_vars


---------------------------------------------------------------------------
(* Announces whose content reads like a command.                           *)

\* what the subagent manager and the transport publish here: announces for
\* the conversation tg/4:2 whose content is a command in some spelling, and
\* the user's own /clear
AnnounceInbound ==
    {InboundMessage(SYSTEM, <<"subagent">>, <<"t", "g", ":", "4", ":", "2">>, c) :
        c \in UserContents \ {<<"h", "i">>}}
    \cup {InboundMessage(TG, <<"user">>, <<"4", ":", "2">>, CmdClear)}

NextAnnounce ==
    \/ \E m \in AnnounceInbound : Arrive(m)
    \/ ConsumeCommand
    \/ ConsumeSystem
    \/ ProviderRaises
    \/ \E r \in Answers : ProviderReturns(r)

SpecAnnounce == Init /\ [][NextAnnounce]_vars

\* the turn in progress is that of an announce whose content is a command
AnnouncedCommand == msg # None /\ msg[1].channel = SYSTEM /\ IsCommand(msg[1])

\* C35: when run() takes an announce whose content is a command, no command
\* is handled: no session changes, nothing is answered and the model is
\* called; when the model answers, the announce and the answer are added
\* to what the origin's session held, as for any system turn.
C35_AnnouncedCommandIsASystemTurn ==
    /\ [][(/\ Between
           /\ inbound # <<>>
           /\ Head(inbound).channel = SYSTEM
           /\ IsCommand(Head(inbound))
           /\ inbound' = Tail(inbound))
          => /\ pc' = "calling"
             /\ outbound' = <<>>
             /\ \A k \in DOMAIN sessions : sessions'[k] = sessions[k]
             /\ \A k \in DOMAIN sessions' \ DOMAIN sessions : sessions'[k] = <<>>]_vars
    /\ [][(AnnouncedCommand /\ pc = "calling" /\ pc' = "done")
          => LET key == TG \o <<":", "4", ":", "2">>
                 held == sessions[key]
                 now == sessions'[key]
             IN  /\ Len(now) = Len(held) + 2
                 /\ SubSeq(now, 1, Len(held)) = held
                 /\ now[Len(held) + 1].role = "user"
                 /\ now[Len(held) + 1].content
                    = <<"[System: ">> \o msg[1].sender_id \o <<"] ">> \o msg[1].content
                 /\ now[Len(now)].role = "assistant"
                 /\ outbound'[1].channel = TG
                 /\ outbound'[1].chat_id = <<"4", ":", "2">>]_vars

\* an announce reading /clear was answered by the model and the session
\* still holds the exchange stored before it
C35_Witness ==
    /\ AnnouncedCommand
    /\ CommandText(msg[1]) = CmdClear
    /\ pc = "done"
    /\ Len(sessions[TG \o <<":", "4", ":", "2">>]) >= 4
    /\ sessions[TG \o <<":", "4", ":", "2">>][1].content = <<"h", "i">>


---------------------------------------------------------------------------
(* Turns that end in run()'s except branch, checked under Spec.            *)

\* C36: when a turn has failed, its session holds what it held when the
\* turn read its history, neither the user turn nor anything else was
\* added, and the session was not saved.
C36_FailedTurnStoresNothing ==
    pc = "failed"
    => LET stored == sessions[turn.session_key]
       IN  /\ Len(stored) = Len(HistoryGiven)
           /\ \A j \in 1..Len(stored) :
                 /\ stored[j].role = HistoryGiven[j].role
                 /\ Some(stored[j].content) = HistoryGiven[j].content
           /\ turn.saves = 0

\* a turn whose session held an earlier exchange failed in its second model
\* call, after two tools had been dispatched
C36_Witness ==
    /\ pc = "failed"
    /\ error = Some("provider error")
    /\ turn.model_calls = 2
    /\ turn.tool_dispatches = 2
    /\ Len(sessions[turn.session_key]) = 2

\* C37: the error notice of a failed turn goes to the turn's conversation:
\* to the channel and chat_id of a user's message, and for an announce to
\* the origin its chat_id names, never to the channel "system".
C37_ErrorNoticeGoesToTheConversation ==
    pc = "failed"
    => /\ Len(outbound) = 1
       /\ outbound[1].channel = turn.origin_channel
       /\ outbound[1].chat_id = turn.origin_chat_id
       /\ outbound[1].channel # SYSTEM


\* the contents the models of this specification answer with
ModelAnswers == {r.content[1] : r \in {a \in Responses : a.content # None}}

\* C39: a turn makes at most max_iterations model calls, and when every
\* model call and tool dispatch of an ended turn has returned, the turn is
\* done and has returned one outbound message whose content is the model's
\* answer, the budget notice or one of the two fixed texts.
C39_TurnEndsWithOneAnswer ==
    /\ turn.model_calls <= MaxIterations
    /\ turn.iteration <= MaxIterations
    /\ (pc \in {"done", "failed"} /\ error # Some("provider error"))
       => /\ pc = "done"
          /\ Len(outbound) = 1
          /\ \/ outbound[1].content \in ModelAnswers
             \/ outbound[1].content \in {NoResponseText, BackgroundDoneText}
             \/ budget # None /\ outbound[1].content = BudgetNotice(budget[1])


====
